---- MODULE Spec2Model ----
(***************************************************************************)
(* Model of the townsquares-relay RelayManager (src/manager/manager.go):   *)
(* the connection registry, the per-connection Subscribe loop with its     *)
(* backoff and reconnect, the event deduplicator and store, and the        *)
(* Broadcast fan-out.  The peer link (nostr.RelayConnect, Relay.Subscribe, *)
(* Relay.Publish, Relay.Close) is the environment: a peer is up or down,   *)
(* a session is open or closed, and the context is live or cancelled.      *)
(***************************************************************************)
EXTENDS Integers, FiniteSets, Sequences, TLC

\* ------------------------------------------------------------------ bounds
NumClients == 2      \* concurrent callers of the exported methods
MaxWorkers == 2      \* Subscribe goroutines that may be started
MaxSessions == 2     \* peer sessions that may be opened (RelayConnect successes)
MaxReopened == 3     \* the same where two workers reconnect one connection
MaxBroadcasts == 1   \* Broadcast calls that reach the fan-out
MaxCloses == 2       \* calls of Close that reach a session
MaxSaves == 3        \* Saves that take their snapshot
MaxTime == 3         \* the clock stops ticking here
Resolution == 2      \* clock ticks per second (the snapshot keeps whole seconds)

\* ------------------------------------------------------- program constants
InitialBackoff == 5  \* seconds
MaxBackoff == 60     \* seconds

Addrs == {"a1", "a2"}          \* well-formed relay URLs
InvalidURL == "invalid-url"    \* a URL RelayConnect can never dial
URLs == Addrs \cup {InvalidURL}
EventIDs == {"e1", "e2"}
Clients == 1..NumClients
Workers == 1..MaxWorkers
Sessions == 1..MaxSessions

VARIABLES
    connections,    \* rm.connections: URL -> RelayConnection (id = 0: no entry)
    created,        \* number of RelayConnection objects allocated so far
    mu,             \* rm.mu: 0 = free, c = write-locked by client c
    eventStore,     \* rm.eventStore: the identifiers that have an event stored
    eventMetadata,  \* rm.eventMetadata: identifier -> EventMetadata
    seenEvents,     \* rm.seenEvents
    sessions,       \* the *nostr.Relay objects handed out by RelayConnect
    peerUp,         \* environment: which peers accept connections
    ctxDone,        \* environment: the context passed to the manager is cancelled
    cl,             \* the callers: position, arguments and result of their call
    wk,             \* the Subscribe goroutines
    publishes,      \* the publish goroutines started by Broadcast
    broadcasts,     \* number of Broadcast calls made so far
    localSeen,      \* history: identifiers Broadcast has marked seen
    watch,          \* observer: the operations whose results the callers keep
    closeCalls,     \* history: how often Close() called Close on each session
    \* --- the timestamp and historical-sync state of the manager (spec sections
    \* 3, 4.1-4.3, 4.6; named as in src/unnamed/part_000, which tests it)
    peers,               \* address -> PeerConnection and the state of its worker
    historicalSyncRelay, \* HistoricalSyncState: "" or the owning address
    savedTimestamps,     \* the side-table loaded at startup
    file,                \* the persisted snapshot
    now,                 \* the clock, in ticks
    snapshot,            \* history: the exact times the last Save took
    loaded,              \* history: savedTimestamps was loaded from the current file
    shutdown,            \* the shutdown signal Close raises
    persister,           \* the Persister's background task: "running" or "done"
    saver,               \* history: who made the last Save
    closed,              \* Close has closed the peer sessions and marked the registry closed
    released,            \* history: the last Release, the owner it found, the former owners
    ingested,            \* history: the last Ingest, its event and whether it was a duplicate
    \* --- Save as its steps (spec 4.6): the lock that serializes the Saves
    saveMu,              \* the Save lock: "" or the Save that holds it
    saving,              \* the Saves in progress: position, snapshot taken, number
    saves,               \* number of Saves that have taken their snapshot
    written,             \* history: the Save that wrote each part of the file
    \* --- the manager's locks and the goroutines' way through them (the
    \* actions that use cl and wk take each locked section as one step)
    lk,                  \* rm.mu, rm.seenMu, rm.storeMu and each conn.mu: writer, readers
    gr                   \* per goroutine: where it is and the steps it has left

vars == <<connections, created, mu, eventStore, eventMetadata, seenEvents,
          sessions, peerUp, ctxDone, cl, wk, publishes, broadcasts, localSeen, watch,
          closeCalls, peers, historicalSyncRelay, savedTimestamps, file, now, snapshot, loaded,
          shutdown, persister, saver, closed, released, ingested,
          saveMu, saving, saves, written, lk, gr>>

\* The state of src/manager/manager.go, and the state the spec adds to it.
managerVars == <<connections, created, mu, eventStore, eventMetadata, seenEvents,
                 sessions, peerUp, ctxDone, cl, wk, publishes, broadcasts, localSeen,
                 watch, closeCalls, lk, gr>>
lockVars == <<lk, gr>>
persistVars == <<shutdown, persister, saver, closed>>
saveVars == <<saveMu, saving, saves, written>>
syncVars == <<peers, historicalSyncRelay, savedTimestamps, file, now, snapshot, loaded,
              persistVars, released, ingested, saveVars>>

NoConn == [id |-> 0, Relay |-> 0, active |-> FALSE]
NoMeta == [SourceRelay |-> "", Local |-> FALSE, set |-> FALSE]
NoSession == [st |-> "free", url |-> ""]
IdleClient == [pc |-> "idle", op |-> "none", url |-> "", ev |-> "", ret |-> "none",
               obs |-> 0, snap |-> {}]
Unborn == [pc |-> "unborn", url |-> "", backoff |-> 0, sub |-> 0, ev |-> "",
           last |-> "none"]

\* The callers' goroutines and one Subscribe goroutine per connection, named
\* by its address; conn.mu is named by the connection's address too.
Callers == {"c1", "c2"}
Goroutines == Callers \cup Addrs
Locks == {"mu", "seenMu", "storeMu"} \cup Addrs
FreeLock == [w |-> "", r |-> {}]
NotRunning == [at |-> "unborn", code |-> <<>>]
Called == [at |-> "caller", code |-> <<>>]

NewRelayManager ==
    /\ connections = [u \in URLs |-> NoConn]
    /\ created = 0
    /\ mu = 0
    /\ eventStore = {}
    /\ eventMetadata = [e \in EventIDs |-> NoMeta]
    /\ seenEvents = {}

\* A new manager with no caller and no goroutine yet; S are the sessions the
\* peers can hand out in the run.
FreshOn(S) ==
    /\ NewRelayManager
    /\ sessions = [s \in S |-> NoSession]
    /\ peerUp \in [Addrs -> BOOLEAN]
    /\ ctxDone = FALSE
    /\ cl = [c \in Clients |-> IdleClient]
    /\ wk = [w \in Workers |-> Unborn]
    /\ publishes = {}
    /\ broadcasts = 0
    /\ localSeen = {}
    /\ closeCalls = [s \in S |-> 0]
    /\ lk = [l \in Locks |-> FreeLock]
    /\ gr = [g \in Goroutines |-> IF g \in Callers THEN Called ELSE NotRunning]

Fresh == FreshOn(Sessions)

Operations == {"Connect", "Broadcast", "GetAllEvents", "StartSubscriptions", "Close"}

NoFilter == [kind |-> "none", since |-> 0]
NoPeer == [present |-> FALSE, isFirstConnection |-> FALSE, lastSeenTimestamp |-> 0,
           isActive |-> FALSE, pc |-> "none", filter |-> NoFilter]
Empty == [a \in {} |-> 0]
NoFile == [timestamps |-> Empty, last_saved |-> 0]
NoRelease == [by |-> "", found |-> "", former |-> {}]
NoIngest == [by |-> "", ev |-> "", dup |-> FALSE]

\* The Saves that can be in progress at once: the Persister's task (interval
\* and final Save) and one asynchronous Save per connection's stream end.
Savers == {"persister"} \cup Addrs
NoSave == [pc |-> "idle", snap |-> Empty, at |-> 0, id |-> 0, final |-> FALSE]

\* A manager instance before it has loaded or connected anything.
FreshSync ==
    /\ peers = [a \in Addrs |-> NoPeer]
    /\ historicalSyncRelay = ""
    /\ savedTimestamps = Empty
    /\ file = NoFile
    /\ now = 0
    /\ snapshot = Empty
    /\ loaded = TRUE
    /\ shutdown = FALSE
    /\ persister = "running"
    /\ saver = "none"
    /\ closed = FALSE
    /\ released = NoRelease
    /\ ingested = NoIngest
    /\ saveMu = ""
    /\ saving = [v \in Savers |-> NoSave]
    /\ saves = 0
    /\ written = [timestamps |-> 0, last_saved |-> 0]

Init == Fresh /\ FreshSync /\ watch = Operations

\* ------------------------------------------------------------ peer link
\* nostr.RelayConnect(ctx, url) returns a session exactly when the URL is
\* well formed, the peer accepts and the context is still live.
RelayConnectOK(u) == u \in Addrs /\ peerUp[u] /\ ~ctxDone

SessionOpen(s) == s \in DOMAIN sessions /\ sessions[s].st = "open"

\* Relay.Subscribe(ctx, filters) succeeds on an open session under a live context.
SubscribeOK(s) == SessionOpen(s) /\ ~ctxDone

\* Relay.Publish(ctx, event) succeeds on an open session under a live context.
PublishOK(s) == SessionOpen(s) /\ ~ctxDone

FreeSessions == {s \in DOMAIN sessions : sessions[s].st = "free"}
NextSession == CHOOSE s \in FreeSessions : \A t \in FreeSessions : s <= t

UnbornWorkers == {w \in Workers : wk[w].pc = "unborn"}
NextWorker == CHOOSE w \in UnbornWorkers : \A v \in UnbornWorkers : w <= v

\* go rm.Subscribe(ctx, conn): the goroutine starts at the top of the loop
\* with backoff := 5 * time.Second.
SpawnSubscribe(u) ==
    [Unborn EXCEPT !.pc = "top", !.url = u, !.backoff = InitialBackoff]

Registered == {u \in URLs : connections[u].id # 0}

\* ------------------------------------------------------------ Connect
\* A Connect that never finds the URL registered.
ExistsNever(u) == FALSE

Exists(u) == connections[u].id # 0

\* A call returns: the caller keeps what it called, what it got back and what
\* it observed (obs): for Connect the connection it then finds in the
\* registry, for Broadcast the number of connections its loop visited.
Return(op, u, e, r, o) ==
    IF op \in watch
       THEN [IdleClient EXCEPT !.op = op, !.url = u, !.ev = e, !.ret = r, !.obs = o]
       ELSE IdleClient

\* rm.mu.Lock(); if the URL is registered return nil, else go on to dial
\* with the lock held.
ConnectEnter(c, u) ==
    /\ cl[c].pc = "idle"
    /\ mu = 0
    /\ IF Exists(u)
          THEN /\ cl' = [cl EXCEPT ![c] = Return("Connect", u, "", "nil", connections[u].id)]
               /\ mu' = mu
          ELSE /\ cl' = [cl EXCEPT ![c] = [IdleClient EXCEPT !.pc = "dial",
                                              !.op = "Connect", !.url = u]]
               /\ mu' = c
    /\ UNCHANGED <<connections, created, eventStore, eventMetadata, seenEvents,
                   sessions, peerUp, ctxDone, wk, publishes, broadcasts, localSeen, watch, closeCalls, syncVars, lockVars>>

\* A Connect that stores the connection before it looks at the error.
ConnectFailureStores(c) ==
    /\ created' = created + 1
    /\ connections' = [connections EXCEPT
                         ![cl[c].url] = [id |-> created + 1, Relay |-> 0, active |-> FALSE]]
    /\ UNCHANGED <<sessions, wk>>

\* RelayConnect failed: log, unlock, return the wrapped error.
ConnectFailure(c) ==
    /\ UNCHANGED <<connections, created, sessions, wk>>

\* A Connect that leaves it to the worker to set the active flag.
ConnectSuccessInactive(c) ==
    LET u == cl[c].url
        s == NextSession
        w == NextWorker
    IN /\ FreeSessions # {}
       /\ UnbornWorkers # {}
       /\ sessions' = [sessions EXCEPT ![s] = [st |-> "open", url |-> u]]
       /\ created' = created + 1
       /\ connections' = [connections EXCEPT
                            ![u] = [id |-> created + 1, Relay |-> s, active |-> FALSE]]
       /\ wk' = [wk EXCEPT ![w] = SpawnSubscribe(u)]

\* RelayConnect succeeded: build the RelayConnection (active: true), store
\* it, start its Subscribe goroutine.
ConnectSuccess(c) ==
    LET u == cl[c].url
        s == NextSession
        w == NextWorker
    IN /\ FreeSessions # {}
       /\ UnbornWorkers # {}
       /\ sessions' = [sessions EXCEPT ![s] = [st |-> "open", url |-> u]]
       /\ created' = created + 1
       /\ connections' = [connections EXCEPT
                            ![u] = [id |-> created + 1, Relay |-> s, active |-> TRUE]]
       /\ wk' = [wk EXCEPT ![w] = SpawnSubscribe(u)]

ConnectDial(c) ==
    /\ cl[c].pc = "dial"
    /\ mu = c
    /\ IF RelayConnectOK(cl[c].url)
          THEN /\ ConnectSuccess(c)
               /\ cl' = [cl EXCEPT ![c] = Return("Connect", cl[c].url, "", "nil",
                                                  connections'[cl[c].url].id)]
          ELSE /\ ConnectFailure(c)
               /\ cl' = [cl EXCEPT ![c] = Return("Connect", cl[c].url, "", "err",
                                                  connections'[cl[c].url].id)]
    /\ mu' = 0
    /\ UNCHANGED <<eventStore, eventMetadata, seenEvents, peerUp, ctxDone,
                   publishes, broadcasts, localSeen, watch, closeCalls, syncVars, lockVars>>

Connect(c) == (\E u \in URLs : ConnectEnter(c, u)) \/ ConnectDial(c)

\* ------------------------------------------------------------ environment
PeerDown(u) ==
    /\ peerUp[u]
    /\ peerUp' = [peerUp EXCEPT ![u] = FALSE]
    /\ sessions' = [s \in DOMAIN sessions |->
                      IF sessions[s].st = "open" /\ sessions[s].url = u
                         THEN [sessions[s] EXCEPT !.st = "closed"]
                         ELSE sessions[s]]
    /\ UNCHANGED <<connections, created, mu, eventStore, eventMetadata, seenEvents,
                   ctxDone, cl, wk, publishes, broadcasts, localSeen, watch, closeCalls, syncVars, lockVars>>

PeerBack(u) ==
    /\ ~peerUp[u]
    /\ peerUp' = [peerUp EXCEPT ![u] = TRUE]
    /\ UNCHANGED <<connections, created, mu, eventStore, eventMetadata, seenEvents,
                   sessions, ctxDone, cl, wk, publishes, broadcasts, localSeen, watch, closeCalls, syncVars, lockVars>>

Cancel ==
    /\ ~ctxDone
    /\ ctxDone' = TRUE
    /\ UNCHANGED <<connections, created, mu, eventStore, eventMetadata, seenEvents,
                   sessions, peerUp, cl, wk, publishes, broadcasts, localSeen, watch, closeCalls, syncVars, lockVars>>

\* ------------------------------------------------------------ Subscribe
\* A cap that caps nothing.
MinUncapped(a, b) == a

Min(a, b) == IF a < b THEN a ELSE b

SetActive(u, b) == [connections EXCEPT ![u].active = b]

\* The goroutine has returned; its locals are gone.
Exited(w) == [Unborn EXCEPT !.pc = "exited", !.url = wk[w].url]

\* A loop whose top does not look at the context.
SubscribeTopIgnoresCancel(w) ==
    /\ wk[w].pc = "top"
    /\ wk' = [wk EXCEPT ![w].pc = "sub"]
    /\ UNCHANGED <<connections, created, mu, eventStore, eventMetadata, seenEvents,
                   sessions, peerUp, ctxDone, cl, publishes, broadcasts, localSeen, watch, closeCalls, syncVars, lockVars>>

\* Top of the loop: select on ctx.Done(), return when it is closed.
SubscribeTop(w) ==
    /\ wk[w].pc = "top"
    /\ wk' = [wk EXCEPT ![w] = IF ctxDone THEN Exited(w) ELSE [@ EXCEPT !.pc = "sub"]]
    /\ UNCHANGED <<connections, created, mu, eventStore, eventMetadata, seenEvents,
                   sessions, peerUp, ctxDone, cl, publishes, broadcasts, localSeen, watch, closeCalls, syncVars, lockVars>>

\* A worker that gives the connection up when its subscribe fails.
SubscribeCallUnregisters(w) ==
    LET u == wk[w].url
        s == connections[u].Relay
    IN /\ wk[w].pc = "sub"
       /\ IF SubscribeOK(s)
             THEN /\ connections' = SetActive(u, TRUE)
                  /\ wk' = [wk EXCEPT ![w].pc = "stream", ![w].sub = s,
                                      ![w].backoff = InitialBackoff]
             ELSE /\ connections' = [connections EXCEPT ![u] = NoConn]
                  /\ wk' = [wk EXCEPT ![w] = Exited(w)]
       /\ UNCHANGED <<created, mu, eventStore, eventMetadata, seenEvents,
                      sessions, peerUp, ctxDone, cl, publishes, broadcasts, localSeen, watch, closeCalls, syncVars, lockVars>>

\* conn.Relay.Subscribe returns.  On error: active = false, then the sleep.
\* On success: active = true, backoff reset, then the range over sub.Events.
SubscribeCall(w) ==
    LET u == wk[w].url
        s == connections[u].Relay
    IN /\ wk[w].pc = "sub"
       /\ IF SubscribeOK(s)
             THEN /\ connections' = SetActive(u, TRUE)
                  /\ wk' = [wk EXCEPT ![w].pc = "stream", ![w].sub = s,
                                      ![w].backoff = InitialBackoff]
             ELSE /\ connections' = SetActive(u, FALSE)
                  /\ wk' = [wk EXCEPT ![w].pc = "sleepFail"]
       /\ UNCHANGED <<created, mu, eventStore, eventMetadata, seenEvents,
                      sessions, peerUp, ctxDone, cl, publishes, broadcasts, localSeen, watch, closeCalls, syncVars, lockVars>>

\* time.Sleep(backoff) after a failed subscribe, then backoff is doubled and
\* capped at maxBackoff.
SleepAfterFailure(w) ==
    /\ wk[w].pc = "sleepFail"
    /\ wk' = [wk EXCEPT ![w].pc = "reconn",
                        ![w].backoff = Min(wk[w].backoff * 2, MaxBackoff)]
    /\ UNCHANGED <<connections, created, mu, eventStore, eventMetadata, seenEvents,
                   sessions, peerUp, ctxDone, cl, publishes, broadcasts, localSeen, watch, closeCalls, syncVars, lockVars>>

CloseSession(ss, s) ==
    IF s \in DOMAIN ss /\ ss[s].st = "open" THEN [ss EXCEPT ![s].st = "closed"] ELSE ss

\* reconnect: conn.Relay.Close() on the stale session, then the dial starts.
reconnectClose(w) ==
    /\ wk[w].pc = "reconn"
    /\ sessions' = CloseSession(sessions, connections[wk[w].url].Relay)
    /\ wk' = [wk EXCEPT ![w].pc = "dial"]
    /\ UNCHANGED <<connections, created, mu, eventStore, eventMetadata, seenEvents,
                   peerUp, ctxDone, cl, publishes, broadcasts, localSeen, watch, closeCalls, syncVars, lockVars>>

\* A reconnect whose success leaves the backoff at its doubled value.
reconnectDialKeepsBackoff(w) ==
    LET u == wk[w].url
        s == NextSession
    IN /\ wk[w].pc = "dial"
       /\ IF RelayConnectOK(u)
             THEN /\ FreeSessions # {}
                  /\ sessions' = [sessions EXCEPT ![s] = [st |-> "open", url |-> u]]
                  /\ connections' = [connections EXCEPT ![u].Relay = s,
                                                        ![u].active = TRUE]
                  /\ wk' = [wk EXCEPT ![w].pc = "top"]
             ELSE /\ wk' = [wk EXCEPT ![w].pc = "top"]
                  /\ UNCHANGED <<sessions, connections>>
       /\ UNCHANGED <<created, mu, eventStore, eventMetadata, seenEvents,
                      peerUp, ctxDone, cl, publishes, broadcasts, localSeen, watch, closeCalls, syncVars, lockVars>>

\* A worker that gives up when its reconnect fails.
reconnectDialGivesUp(w) ==
    LET u == wk[w].url
        s == NextSession
    IN /\ wk[w].pc = "dial"
       /\ IF RelayConnectOK(u)
             THEN /\ FreeSessions # {}
                  /\ sessions' = [sessions EXCEPT ![s] = [st |-> "open", url |-> u]]
                  /\ connections' = [connections EXCEPT ![u].Relay = s,
                                                        ![u].active = TRUE]
                  /\ wk' = [wk EXCEPT ![w].pc = "top", ![w].backoff = InitialBackoff]
             ELSE /\ wk' = [wk EXCEPT ![w] = Exited(w)]
                  /\ UNCHANGED <<sessions, connections>>
       /\ UNCHANGED <<created, mu, eventStore, eventMetadata, seenEvents,
                      peerUp, ctxDone, cl, publishes, broadcasts, localSeen, watch, closeCalls, syncVars, lockVars>>

\* A reconnect that registers a new RelayConnection in place of the old one.
reconnectDialReplaces(w) ==
    LET u == wk[w].url
        s == NextSession
    IN /\ wk[w].pc = "dial"
       /\ IF RelayConnectOK(u)
             THEN /\ FreeSessions # {}
                  /\ sessions' = [sessions EXCEPT ![s] = [st |-> "open", url |-> u]]
                  /\ created' = created + 1
                  /\ connections' = [connections EXCEPT
                                       ![u] = [id |-> created + 1, Relay |-> s, active |-> TRUE]]
                  /\ wk' = [wk EXCEPT ![w].pc = "top", ![w].backoff = InitialBackoff]
             ELSE /\ wk' = [wk EXCEPT ![w].pc = "top"]
                  /\ UNCHANGED <<sessions, connections, created>>
       /\ UNCHANGED <<mu, eventStore, eventMetadata, seenEvents,
                      peerUp, ctxDone, cl, publishes, broadcasts, localSeen, watch, closeCalls, syncVars, lockVars>>

\* reconnect: nostr.RelayConnect returns.  On error the loop continues with
\* the doubled backoff; on success conn.Relay and conn.active are set under
\* conn.mu and the backoff is reset.
reconnectDial(w) ==
    LET u == wk[w].url
        s == NextSession
    IN /\ wk[w].pc = "dial"
       /\ IF RelayConnectOK(u)
             THEN /\ FreeSessions # {}
                  /\ sessions' = [sessions EXCEPT ![s] = [st |-> "open", url |-> u]]
                  /\ connections' = [connections EXCEPT ![u].Relay = s,
                                                        ![u].active = TRUE]
                  /\ wk' = [wk EXCEPT ![w].pc = "top", ![w].backoff = InitialBackoff]
             ELSE /\ wk' = [wk EXCEPT ![w].pc = "top"]
                  /\ UNCHANGED <<sessions, connections>>
       /\ UNCHANGED <<created, mu, eventStore, eventMetadata, seenEvents,
                      peerUp, ctxDone, cl, publishes, broadcasts, localSeen, watch, closeCalls, syncVars, lockVars>>

\* An event arrives on sub.Events: return if ctx.Done() is closed, else
\* call handleIncomingEvent(ev, conn.URL).
StreamEvent(w, e) ==
    /\ wk[w].pc = "stream"
    /\ SessionOpen(wk[w].sub)
    /\ wk' = [wk EXCEPT ![w] = IF ctxDone THEN Exited(w)
                                 ELSE [@ EXCEPT !.pc = "handle", !.ev = e]]
    /\ UNCHANGED <<connections, created, mu, eventStore, eventMetadata, seenEvents,
                   sessions, peerUp, ctxDone, cl, publishes, broadcasts, localSeen, watch, closeCalls, syncVars, lockVars>>

\* A deduplicator that lets every event through.
AlreadySeenNever(e) == FALSE

\* handleIncomingEvent, the seenMu section: the test of rm.seenEvents[event.ID].
AlreadySeen(e) == e \in seenEvents

\* An Ingest that tests the identifier but leaves the marking for later.
handleIncomingEventSeenUnmarked(w) ==
    /\ wk[w].pc = "handle"
    /\ wk' = [wk EXCEPT ![w].pc = IF AlreadySeen(wk[w].ev) THEN "stream" ELSE "store",
                        ![w].last = IF AlreadySeen(wk[w].ev) THEN "dup" ELSE @]
    /\ UNCHANGED <<connections, created, mu, eventStore, eventMetadata, seenEvents,
                   sessions, peerUp, ctxDone, cl, publishes, broadcasts, localSeen, watch, closeCalls, syncVars, lockVars>>

\* handleIncomingEvent, the seenMu section: return on a duplicate, else mark.
handleIncomingEventSeen(w) ==
    /\ wk[w].pc = "handle"
    /\ IF AlreadySeen(wk[w].ev)
          THEN /\ wk' = [wk EXCEPT ![w].pc = "stream", ![w].last = "dup"]
               /\ UNCHANGED seenEvents
          ELSE /\ wk' = [wk EXCEPT ![w].pc = "store"]
               /\ seenEvents' = seenEvents \cup {wk[w].ev}
    /\ UNCHANGED <<connections, created, mu, eventStore, eventMetadata,
                   sessions, peerUp, ctxDone, cl, publishes, broadcasts, localSeen, watch, closeCalls, syncVars, lockVars>>

\* An Ingest that passes the stored event on to the other active peers.
handleIncomingEventStoreForwards(w) ==
    /\ wk[w].pc = "store"
    /\ eventStore' = eventStore \cup {wk[w].ev}
    /\ eventMetadata' = [eventMetadata EXCEPT ![wk[w].ev] =
                           [SourceRelay |-> wk[w].url, Local |-> FALSE, set |-> TRUE]]
    /\ wk' = [wk EXCEPT ![w].pc = "stream", ![w].last = "new"]
    /\ publishes' = publishes \cup
          {[bid |-> 0, url |-> u, relay |-> connections[u].Relay,
            ev |-> wk[w].ev, st |-> "pending"] :
              u \in {v \in URLs \ {wk[w].url} : Exists(v) /\ connections[v].active}}
    /\ UNCHANGED <<connections, created, mu, seenEvents,
                   sessions, peerUp, ctxDone, cl, broadcasts, localSeen, watch, closeCalls, syncVars, lockVars>>

\* handleIncomingEvent, the storeMu section: the event and its metadata.
handleIncomingEventStore(w) ==
    /\ wk[w].pc = "store"
    /\ eventStore' = eventStore \cup {wk[w].ev}
    /\ eventMetadata' = [eventMetadata EXCEPT ![wk[w].ev] =
                           [SourceRelay |-> wk[w].url, Local |-> FALSE, set |-> TRUE]]
    /\ wk' = [wk EXCEPT ![w].pc = "stream", ![w].last = "new"]
    /\ UNCHANGED <<connections, created, mu, seenEvents,
                   sessions, peerUp, ctxDone, cl, publishes, broadcasts, localSeen, watch, closeCalls, syncVars, lockVars>>

\* A stream end that leaves the active flag as it is.
StreamEndKeepsActive(w) ==
    /\ wk[w].pc = "stream"
    /\ ~SessionOpen(wk[w].sub) \/ ctxDone
    /\ wk' = [wk EXCEPT ![w] = [SpawnSubscribe(wk[w].url) EXCEPT
                                   !.pc = "sleepEnd", !.backoff = wk[w].backoff]]
    /\ UNCHANGED <<connections, created, mu, eventStore, eventMetadata, seenEvents,
                   sessions, peerUp, ctxDone, cl, publishes, broadcasts, localSeen, watch, closeCalls, syncVars, lockVars>>

\* sub.Events is closed (session closed or dropped, or context cancelled):
\* ConnectionLost, active = false.
StreamEnd(w) ==
    /\ wk[w].pc = "stream"
    /\ ~SessionOpen(wk[w].sub) \/ ctxDone
    /\ connections' = SetActive(wk[w].url, FALSE)
    /\ wk' = [wk EXCEPT ![w] = [SpawnSubscribe(wk[w].url) EXCEPT
                                   !.pc = "sleepEnd", !.backoff = wk[w].backoff]]
    /\ UNCHANGED <<created, mu, eventStore, eventMetadata, seenEvents,
                   sessions, peerUp, ctxDone, cl, publishes, broadcasts, localSeen, watch, closeCalls, syncVars, lockVars>>

\* time.Sleep(backoff) after the stream ended, then back to the top.
SleepAfterStreamEnd(w) ==
    /\ wk[w].pc = "sleepEnd"
    /\ wk' = [wk EXCEPT ![w].pc = "top"]
    /\ UNCHANGED <<connections, created, mu, eventStore, eventMetadata, seenEvents,
                   sessions, peerUp, ctxDone, cl, publishes, broadcasts, localSeen, watch, closeCalls, syncVars, lockVars>>

Subscribe(w) ==
    \/ SubscribeTop(w)
    \/ SubscribeCall(w)
    \/ SleepAfterFailure(w)
    \/ reconnectClose(w)
    \/ reconnectDial(w)
    \/ \E e \in EventIDs : StreamEvent(w, e)
    \/ handleIncomingEventSeen(w)
    \/ handleIncomingEventStore(w)
    \/ StreamEnd(w)
    \/ SleepAfterStreamEnd(w)

\* ------------------------------------------------------------ Broadcast
\* A Broadcast that does not mark the event seen.
BroadcastSeenForgets(c, e) ==
    /\ cl[c].pc = "idle"
    /\ broadcasts < MaxBroadcasts
    /\ broadcasts' = broadcasts + 1
    /\ localSeen' = localSeen \cup {e}
    /\ cl' = [cl EXCEPT ![c] = [IdleClient EXCEPT !.pc = "bmeta", !.op = "Broadcast",
                                                   !.ev = e, !.obs = broadcasts + 1]]
    /\ UNCHANGED <<connections, created, mu, eventStore, eventMetadata, seenEvents,
                   sessions, peerUp, ctxDone, wk, publishes, watch, closeCalls, syncVars, lockVars>>

\* Broadcast, the seenMu section: rm.seenEvents[event.ID] = true.
BroadcastSeen(c, e) ==
    /\ cl[c].pc = "idle"
    /\ broadcasts < MaxBroadcasts
    /\ broadcasts' = broadcasts + 1
    /\ seenEvents' = seenEvents \cup {e}
    /\ localSeen' = localSeen \cup {e}
    /\ cl' = [cl EXCEPT ![c] = [IdleClient EXCEPT !.pc = "bmeta", !.op = "Broadcast",
                                                   !.ev = e, !.obs = broadcasts + 1]]
    /\ UNCHANGED <<connections, created, mu, eventStore, eventMetadata,
                   sessions, peerUp, ctxDone, wk, publishes, watch, closeCalls, syncVars, lockVars>>

\* Broadcast, the storeMu section: the metadata of a local event.
BroadcastMeta(c) ==
    /\ cl[c].pc = "bmeta"
    /\ eventMetadata' = [eventMetadata EXCEPT ![cl[c].ev] =
                           [SourceRelay |-> "local", Local |-> TRUE, set |-> TRUE]]
    /\ cl' = [cl EXCEPT ![c].pc = "bfan"]
    /\ UNCHANGED <<connections, created, mu, eventStore, seenEvents,
                   sessions, peerUp, ctxDone, wk, publishes, broadcasts, localSeen, watch, closeCalls, syncVars, lockVars>>

\* A loop that publishes to every registered connection.
PublishToAll(u) == connections[u].id # 0

\* The loop's test `if !conn.active { continue }`.
PublishTo(u) == Exists(u) /\ connections[u].active

\* Broadcast, the rm.mu.RLock section: one publish goroutine, holding
\* conn.Relay and the URL, for every connection the loop does not skip.
BroadcastFanout(c) ==
    /\ cl[c].pc = "bfan"
    /\ mu = 0
    /\ publishes' = publishes \cup
          {[bid |-> cl[c].obs, url |-> u, relay |-> connections[u].Relay,
            ev |-> cl[c].ev, st |-> "pending"] : u \in {v \in URLs : PublishTo(v)}}
    /\ cl' = [cl EXCEPT ![c] = Return("Broadcast", "", cl[c].ev, "nil",
                                       Cardinality(Registered))]
    /\ UNCHANGED <<connections, created, mu, eventStore, eventMetadata, seenEvents,
                   sessions, peerUp, ctxDone, wk, broadcasts, localSeen, watch, closeCalls, syncVars, lockVars>>

Broadcast(c) ==
    \/ \E e \in EventIDs : BroadcastSeen(c, e)
    \/ BroadcastMeta(c)
    \/ BroadcastFanout(c)

\* A publish goroutine that marks the connection inactive when Publish fails.
PublishReturnsDeactivates(p) ==
    /\ p.st = "pending"
    /\ publishes' = (publishes \ {p}) \cup
                    {[p EXCEPT !.st = IF PublishOK(p.relay) THEN "ok" ELSE "failed"]}
    /\ connections' = IF PublishOK(p.relay) THEN connections ELSE SetActive(p.url, FALSE)
    /\ UNCHANGED <<created, mu, eventStore, eventMetadata, seenEvents,
                   sessions, peerUp, ctxDone, cl, wk, broadcasts, localSeen, watch, closeCalls, syncVars, lockVars>>

\* A publish goroutine: relay.Publish returns and the outcome is logged.
PublishReturns(p) ==
    /\ p.st = "pending"
    /\ publishes' = (publishes \ {p}) \cup
                    {[p EXCEPT !.st = IF PublishOK(p.relay) THEN "ok" ELSE "failed"]}
    /\ UNCHANGED <<connections, created, mu, eventStore, eventMetadata, seenEvents,
                   sessions, peerUp, ctxDone, cl, wk, broadcasts, localSeen, watch, closeCalls, syncVars, lockVars>>

\* ------------------------------------------------------------ GetAllEvents
\* A GetAllEvents that answers from the deduplication set.
GetAllEventsSeen(c) ==
    /\ cl[c].pc = "idle"
    /\ cl' = [cl EXCEPT ![c] = [Return("GetAllEvents", "", "", "nil", 0) EXCEPT
                                  !.snap = IF "GetAllEvents" \in watch
                                              THEN seenEvents ELSE {}]]
    /\ UNCHANGED <<connections, created, mu, eventStore, eventMetadata, seenEvents,
                   sessions, peerUp, ctxDone, wk, publishes, broadcasts, localSeen, watch, closeCalls, syncVars, lockVars>>

\* storeMu.RLock(); a new slice with every event of rm.eventStore.
GetAllEvents(c) ==
    /\ cl[c].pc = "idle"
    /\ cl' = [cl EXCEPT ![c] = [Return("GetAllEvents", "", "", "nil", 0) EXCEPT
                                  !.snap = IF "GetAllEvents" \in watch
                                              THEN eventStore ELSE {}]]
    /\ UNCHANGED <<connections, created, mu, eventStore, eventMetadata, seenEvents,
                   sessions, peerUp, ctxDone, wk, publishes, broadcasts, localSeen, watch, closeCalls, syncVars, lockVars>>

\* ------------------------------------------------------------ StartSubscriptions
\* The loop's test `if conn.active`.
StartFor(u) == Exists(u) /\ connections[u].active

\* One more Subscribe goroutine for every connection that passes the test.
StartSubscriptions(c) ==
    LET todo == {u \in URLs : StartFor(u)}
        slot == CHOOSE f \in [todo -> UnbornWorkers] :
                    \A u, v \in todo : u # v => f[u] # f[v]
    IN /\ cl[c].pc = "idle"
       /\ mu = 0
       /\ Cardinality(todo) <= Cardinality(UnbornWorkers)
       /\ wk' = [w \in Workers |->
                   IF \E u \in todo : slot[u] = w
                      THEN SpawnSubscribe(CHOOSE u \in todo : slot[u] = w)
                      ELSE wk[w]]
       /\ cl' = [cl EXCEPT ![c] = Return("StartSubscriptions", "", "", "nil", 0)]
       /\ UNCHANGED <<connections, created, mu, eventStore, eventMetadata, seenEvents,
                      sessions, peerUp, ctxDone, publishes, broadcasts, localSeen, watch, closeCalls, syncVars, lockVars>>

\* ------------------------------------------------------------ Close
\* The session is the conn.Relay of a registered connection.
Held(s) == \E u \in Registered : connections[u].Relay = s

\* rm.mu.Lock(); conn.Relay.Close() for every registered connection.
Close(c) ==
    /\ cl[c].pc = "idle"
    /\ mu = 0
    /\ \A s \in DOMAIN sessions : Held(s) => closeCalls[s] < MaxCloses
    /\ sessions' = [s \in DOMAIN sessions |->
                      IF Held(s) THEN CloseSession(sessions, s)[s] ELSE sessions[s]]
    /\ closeCalls' = [s \in DOMAIN sessions |-> closeCalls[s] + IF Held(s) THEN 1 ELSE 0]
    /\ cl' = [cl EXCEPT ![c] = Return("Close", "", "", "nil", 0)]
    /\ UNCHANGED <<connections, created, mu, eventStore, eventMetadata, seenEvents,
                   peerUp, ctxDone, wk, publishes, broadcasts, localSeen, watch, syncVars, lockVars>>

\* ------------------------------------------------------------------------
\* The locks.  Each method is taken here as the sequence of its lock
\* operations, its accesses to the fields of a RelayConnection and its
\* blocking calls, in the order of the code; the values read and written are
\* those of the actions above and are left out.
\* ------------------------------------------------------------------------
\* What the steps of this level leave alone.
sectionVars == <<connections, created, mu, eventStore, eventMetadata, seenEvents,
                 sessions, peerUp, ctxDone, cl, wk, publishes, broadcasts, localSeen,
                 watch, closeCalls>>

Step(op, arg, u) == [op |-> op, arg |-> arg, u |-> u]
\* The step the goroutine is at.
At(g) == IF gr[g].code = <<>> THEN Step("none", "", "") ELSE Head(gr[g].code)

HeldBy(g) == {l \in Locks : lk[l].w = g \/ g \in lk[l].r}
Holders(l) == {g \in Goroutines : l \in HeldBy(g)}

\* The connections in rm.connections: those whose Subscribe goroutine Connect
\* has started.
Stored == {u \in Addrs : gr[u].at # "unborn"}

\* A step run by `defer`: a return skips to it.
IsDeferred(i) == i.u = "defer"
ReturnFrom(code) == SelectSeq(code, IsDeferred)

\* Connect: rm.mu.Lock() with the deferred Unlock, the test of the map, the
\* dial and the return on its error, the store with `go rm.Subscribe`.
ConnectCode(u) ==
    <<Step("Lock", "mu", ""), Step("exists", "connections", u),
      Step("block", "RelayConnect", u), Step("if", "err", u),
      Step("store", "connections", u), Step("Unlock", "mu", "defer")>>

\* handleIncomingEvent: the seenMu section with the return on a seen
\* identifier, then the storeMu section.
handleIncomingEventCode ==
    <<Step("Lock", "seenMu", ""), Step("Unlock", "seenMu", ""), Step("if", "seen", ""),
      Step("Lock", "storeMu", ""), Step("Unlock", "storeMu", "")>>

\* A worker that sleeps its backoff inside the conn.mu section.
SubscribeFailureCodeSleepsLocked(u) ==
    <<Step("read", "Relay", u), Step("block", "Relay.Subscribe", u),
      Step("Lock", u, u), Step("write", "active", u),
      Step("block", "time.Sleep", u), Step("Unlock", u, u)>>

\* Subscribe, a failed attempt: conn.Relay.Subscribe returns an error, active
\* is cleared under conn.mu, then the sleep.
SubscribeFailureCode(u) ==
    <<Step("read", "Relay", u), Step("block", "Relay.Subscribe", u),
      Step("Lock", u, u), Step("write", "active", u), Step("Unlock", u, u),
      Step("block", "time.Sleep", u)>>

\* reconnect: conn.Relay.Close(), the dial and the return on its error, the
\* new session and the active flag stored under conn.mu.
reconnectCode(u) ==
    <<Step("read", "Relay", u), Step("block", "Relay.Close", u),
      Step("block", "RelayConnect", u), Step("if", "err", u),
      Step("Lock", u, u), Step("write", "Relay", u),
      Step("write", "active", u), Step("Unlock", u, u)>>

\* Subscribe, a successful attempt: active is set under conn.mu.
SubscribeSuccessCode(u) ==
    <<Step("read", "Relay", u), Step("block", "Relay.Subscribe", u),
      Step("Lock", u, u), Step("write", "active", u), Step("Unlock", u, u)>>

\* Subscribe, one event of the stream.
StreamEventCode(u) ==
    <<Step("block", "sub.Events", u)>> \o handleIncomingEventCode

\* Subscribe, the end of the stream: active is cleared under conn.mu, then
\* the sleep.
StreamEndCode(u) ==
    <<Step("block", "sub.Events", u),
      Step("Lock", u, u), Step("write", "active", u), Step("Unlock", u, u),
      Step("block", "time.Sleep", u)>>

\* A Broadcast that keeps seenMu and storeMu while it reads the registry.
BroadcastCodeNested ==
    <<Step("Lock", "seenMu", ""), Step("Lock", "storeMu", ""),
      Step("RLock", "mu", ""), Step("range", "Broadcast", ""),
      Step("RUnlock", "mu", "defer"), Step("Unlock", "storeMu", ""),
      Step("Unlock", "seenMu", "")>>

\* Broadcast: the seenMu section, the storeMu section, then the loop over
\* rm.connections under rm.mu.RLock() with the deferred RUnlock.
BroadcastCode ==
    <<Step("Lock", "seenMu", ""), Step("Unlock", "seenMu", ""),
      Step("Lock", "storeMu", ""), Step("Unlock", "storeMu", ""),
      Step("RLock", "mu", ""), Step("range", "Broadcast", ""),
      Step("RUnlock", "mu", "defer")>>

\* GetAllEvents: the copy under storeMu.RLock().
GetAllEventsCode ==
    <<Step("RLock", "storeMu", ""), Step("RUnlock", "storeMu", "")>>

\* Close: the loop over rm.connections under rm.mu.Lock().
CloseCode ==
    <<Step("Lock", "mu", ""), Step("range", "Close", ""),
      Step("Unlock", "mu", "defer")>>

\* The body of a loop over rm.connections for one connection: Broadcast
\* tests conn.active and passes conn.Relay to the publish goroutine (which
\* takes no lock and reads no field); Close calls conn.Relay.Close().
LoopBody(fn, u) ==
    IF fn = "Broadcast" THEN <<Step("read", "active", u), Step("read", "Relay", u)>>
    ELSE <<Step("read", "Relay", u), Step("block", "Relay.Close", u)>>

RECURSIVE Unroll(_, _)
Unroll(fn, us) ==
    IF us = {} THEN <<>>
    ELSE LET u == CHOOSE v \in us : TRUE
         IN LoopBody(fn, u) \o Unroll(fn, us \ {u})

\* A caller calls one of the exported methods.
Call(c, code) ==
    /\ c \in Callers
    /\ gr[c].code = <<>>
    /\ gr' = [gr EXCEPT ![c].code = code]
    /\ UNCHANGED <<lk, sectionVars, syncVars>>

\* The goroutines in Lock() on the lock (sync.RWMutex: a pending Lock()
\* holds back the RLock() calls that come after it).
Writers(l) == {h \in Goroutines : At(h).op = "Lock" /\ At(h).arg = l}

\* Lock() waits for the writer and the readers, RLock() for the writer and
\* for a pending Lock().
CanTake(g, i) ==
    /\ lk[i.arg].w = ""
    /\ i.op = "Lock" => lk[i.arg].r = {}
    /\ i.op = "RLock" => Writers(i.arg) \ {g} = {}

LockStep(g) ==
    LET i == At(g)
    IN /\ i.op \in {"Lock", "RLock"}
       /\ CanTake(g, i)
       /\ lk' = [lk EXCEPT ![i.arg] = IF i.op = "Lock" THEN [@ EXCEPT !.w = g]
                                                       ELSE [@ EXCEPT !.r = @ \cup {g}]]
       /\ gr' = [gr EXCEPT ![g].code = Tail(@)]
       /\ UNCHANGED <<sectionVars, syncVars>>

UnlockStep(g) ==
    LET i == At(g)
    IN /\ i.op \in {"Unlock", "RUnlock"}
       /\ lk' = [lk EXCEPT ![i.arg] = IF i.op = "Unlock" THEN [@ EXCEPT !.w = ""]
                                                         ELSE [@ EXCEPT !.r = @ \ {g}]]
       /\ gr' = [gr EXCEPT ![g].code = Tail(@)]
       /\ UNCHANGED <<sectionVars, syncVars>>

\* A read or a write of a field of a RelayConnection.
AccessStep(g) ==
    /\ At(g).op \in {"read", "write"}
    /\ gr' = [gr EXCEPT ![g].code = Tail(@)]
    /\ UNCHANGED <<lk, sectionVars, syncVars>>

\* A blocking call (to the peer link, time.Sleep, the receive on sub.Events)
\* returns.
BlockReturns(g) ==
    /\ At(g).op = "block"
    /\ gr' = [gr EXCEPT ![g].code = Tail(@)]
    /\ UNCHANGED <<lk, sectionVars, syncVars>>

\* Connect: `if _, exists := rm.connections[url]; exists { return nil }`.
ExistsStep(g) ==
    /\ At(g).op = "exists"
    /\ gr' = [gr EXCEPT ![g].code = IF At(g).u \in Stored THEN ReturnFrom(Tail(@))
                                                              ELSE Tail(@)]
    /\ UNCHANGED <<lk, sectionVars, syncVars>>

\* `if err != nil { return ... }` after a dial, `if rm.seenEvents[evt.ID]
\* { return }` in handleIncomingEvent: the function returns or goes on.
IfStep(g) ==
    /\ At(g).op = "if"
    /\ \/ gr' = [gr EXCEPT ![g].code = ReturnFrom(Tail(@))]
       \/ gr' = [gr EXCEPT ![g].code = Tail(@)]
    /\ UNCHANGED <<lk, sectionVars, syncVars>>

\* Connect: rm.connections[url] = conn; go rm.Subscribe(ctx, conn).
StoreStep(g) ==
    /\ At(g).op = "store"
    /\ gr' = [gr EXCEPT ![g].code = Tail(@),
                        ![At(g).u] = [at |-> "loop", code |-> <<>>]]
    /\ UNCHANGED <<lk, sectionVars, syncVars>>

\* `for url, conn := range rm.connections`: the body, once per connection.
RangeStep(g) ==
    /\ At(g).op = "range"
    /\ gr' = [gr EXCEPT ![g].code = Unroll(At(g).arg, Stored) \o Tail(@)]
    /\ UNCHANGED <<lk, sectionVars, syncVars>>

\* The worker at the top of its loop: it returns on a cancelled context,
\* else it makes a subscribe attempt, which fails (then the reconnect, which
\* succeeds or not) or succeeds.
WorkerTop(u) ==
    /\ gr[u].at = "loop" /\ gr[u].code = <<>>
    /\ \/ ctxDone /\ gr' = [gr EXCEPT ![u].at = "exited"]
       \/ /\ ~ctxDone
          /\ \/ gr' = [gr EXCEPT ![u].code = SubscribeFailureCode(u) \o reconnectCode(u)]
             \/ gr' = [gr EXCEPT ![u].code = SubscribeSuccessCode(u), ![u].at = "stream"]
    /\ UNCHANGED <<lk, sectionVars, syncVars>>

\* The worker in `for ev := range sub.Events`: an event arrives (the worker
\* returns on a cancelled context, else handles it), or the stream ends.
WorkerStream(u) ==
    /\ gr[u].at = "stream" /\ gr[u].code = <<>>
    /\ \/ ctxDone /\ gr' = [gr EXCEPT ![u].at = "exited"]
       \/ ~ctxDone /\ gr' = [gr EXCEPT ![u].code = StreamEventCode(u)]
       \/ gr' = [gr EXCEPT ![u].code = StreamEndCode(u), ![u].at = "loop"]
    /\ UNCHANGED <<lk, sectionVars, syncVars>>

NextLocks ==
    \/ \E u \in Addrs : Call("c1", ConnectCode(u))
    \/ Call("c1", CloseCode)
    \/ Call("c2", BroadcastCode)
    \/ Call("c2", GetAllEventsCode)
    \/ \E g \in Goroutines : LockStep(g)
    \/ \E g \in Goroutines : UnlockStep(g)
    \/ \E g \in Goroutines : AccessStep(g)
    \/ \E g \in Goroutines : BlockReturns(g)
    \/ \E g \in Goroutines : ExistsStep(g)
    \/ \E g \in Goroutines : IfStep(g)
    \/ \E g \in Goroutines : StoreStep(g)
    \/ \E g \in Goroutines : RangeStep(g)
    \/ \E u \in Addrs : WorkerTop(u)
    \/ \E u \in Addrs : WorkerStream(u)
    \/ Cancel

\* The outcome of a call to a peer is a choice of its `if` step here.
InitLocks == Fresh /\ FreshSync /\ watch = {} /\ peerUp = [u \in Addrs |-> TRUE]

SpecLocks == InitLocks /\ [][NextLocks]_vars

\* ------------------------------------------------------------------------
\* The timestamp persister and the historical-sync coordinator.  Their code
\* is not among the sources (only its test is, src/unnamed/part_000); the
\* actions below follow spec sections 4.1-4.3 and 4.6.
\* ------------------------------------------------------------------------
Times == 0..MaxTime

\* A formatter that rounds up to the next second.
FormatCeil(t) == (t + Resolution - 1) \div Resolution

\* The snapshot holds RFC3339 times: whole seconds.
Format(t) == t \div Resolution
Parse(sec) == sec * Resolution

\* A claim that first-time connections may make too.
CanClaimFirstToo(a) == historicalSyncRelay = ""

\* A claim that does not look at the current owner.
CanClaimHeld(a) == ~peers[a].isFirstConnection

\* TryClaim(address, isFirstConnection): the owner is taken only when it is
\* empty and the connection is not a first-time one.
CanClaim(a) == historicalSyncRelay = "" /\ ~peers[a].isFirstConnection

TryClaim(a) == IF CanClaim(a) THEN a ELSE historicalSyncRelay

\* A Release that clears the owner whoever holds it.
ReleaseAlways(a) == ""

\* Release(address): clears the owner only if it is `address`.
Release(a) == IF historicalSyncRelay = a THEN "" ELSE historicalSyncRelay

\* A filter construction that forgets the first-time case.
BuildFilterIgnoresFirst(a) ==
    IF CanClaim(a) THEN [kind |-> "since", since |-> peers[a].lastSeenTimestamp]
    ELSE [kind |-> "forward", since |-> 0]

\* The filter of one subscribe attempt (4.2).
BuildFilter(a) ==
    IF peers[a].isFirstConnection THEN [kind |-> "recent", since |-> 0]
    ELSE IF CanClaim(a) THEN [kind |-> "since", since |-> peers[a].lastSeenTimestamp]
    ELSE [kind |-> "forward", since |-> 0]

\* A Connect that treats every connection as a first-time one.
ConnectPeerAlwaysFirst(a) ==
    /\ ~peers[a].present
    /\ peers' = [peers EXCEPT ![a] =
         [present |-> TRUE, isFirstConnection |-> TRUE, lastSeenTimestamp |-> now,
          isActive |-> TRUE, pc |-> "connecting", filter |-> NoFilter]]
    /\ UNCHANGED <<saveVars, released, ingested, historicalSyncRelay, savedTimestamps, file, now, snapshot, loaded,
                   managerVars, persistVars>>

\* Connect(address) on success (4.1): the side-table decides isFirstConnection
\* and lastSeenTimestamp; a worker is spawned.
ConnectPeer(a) ==
    /\ ~peers[a].present
    /\ ~ctxDone
    /\ peers' = [peers EXCEPT ![a] =
         [present |-> TRUE,
          isFirstConnection |-> a \notin DOMAIN savedTimestamps,
          lastSeenTimestamp |-> IF a \in DOMAIN savedTimestamps
                                   THEN savedTimestamps[a] ELSE now,
          isActive |-> TRUE, pc |-> "connecting", filter |-> NoFilter]]
    /\ UNCHANGED <<saveVars, released, ingested, historicalSyncRelay, savedTimestamps, file, now, snapshot, loaded,
                   managerVars, persistVars>>

\* The worker builds its filter, claiming historical sync if it may.
WorkerFilter(a) ==
    /\ peers[a].pc = "connecting"
    /\ peers' = [peers EXCEPT ![a].pc = "subscribing", ![a].filter = BuildFilter(a)]
    /\ historicalSyncRelay' = TryClaim(a)
    /\ UNCHANGED <<saveVars, released, ingested, savedTimestamps, file, now, snapshot, loaded, managerVars, persistVars>>

\* Subscribe success: the connection is active and the stream is consumed.
WorkerSubscribed(a) ==
    /\ peers[a].pc = "subscribing"
    /\ peers' = [peers EXCEPT ![a].pc = "subscribed", ![a].isActive = TRUE]
    /\ UNCHANGED <<saveVars, released, ingested, historicalSyncRelay, savedTimestamps, file, now, snapshot, loaded,
                   managerVars, persistVars>>

\* Subscribe failure: inactive, backoff, reconnect, and a fresh attempt.
WorkerSubscribeFailed(a) ==
    /\ peers[a].pc = "subscribing"
    /\ peers' = [peers EXCEPT ![a].pc = "backoff", ![a].isActive = FALSE,
                              ![a].filter = NoFilter]
    /\ UNCHANGED <<saveVars, released, ingested, historicalSyncRelay, savedTimestamps, file, now, snapshot, loaded,
                   managerVars, persistVars>>

\* Ingest of a new event from `a` (4.4): lastSeenTimestamp becomes now.
Ingest(a) ==
    /\ peers[a].pc = "subscribed"
    /\ peers' = [peers EXCEPT ![a].lastSeenTimestamp = now]
    /\ UNCHANGED <<saveVars, released, ingested, historicalSyncRelay, savedTimestamps, file, now, snapshot, loaded,
                   managerVars, persistVars>>

\* An Ingest that keeps the time of the historical-sync owner only.
IngestEventOwnerOnly(a, e) ==
    /\ peers[a].pc = "subscribed"
    /\ IF e \in seenEvents
          THEN UNCHANGED <<peers, seenEvents, eventStore, eventMetadata>>
          ELSE /\ seenEvents' = seenEvents \cup {e}
               /\ eventStore' = eventStore \cup {e}
               /\ eventMetadata' = [eventMetadata EXCEPT ![e] =
                                      [SourceRelay |-> a, Local |-> FALSE, set |-> TRUE]]
               /\ peers' = IF historicalSyncRelay = a
                              THEN [peers EXCEPT ![a].lastSeenTimestamp = now]
                              ELSE peers
    /\ ingested' = [by |-> a, ev |-> e, dup |-> e \in seenEvents]
    /\ UNCHANGED <<saveVars, released, historicalSyncRelay, savedTimestamps, file, now, snapshot,
                   loaded, persistVars>>
    /\ UNCHANGED <<connections, created, mu, sessions, peerUp, ctxDone, cl, wk, publishes,
                   broadcasts, localSeen, watch, closeCalls, lockVars>>

\* Ingest(event, sourceAddress) (4.4): a duplicate returns with no effect; a new
\* event is marked seen and stored with its metadata, and the originating
\* connection's lastSeenTimestamp becomes the current time.
IngestEvent(a, e) ==
    /\ peers[a].pc = "subscribed"
    /\ IF e \in seenEvents
          THEN UNCHANGED <<peers, seenEvents, eventStore, eventMetadata>>
          ELSE /\ seenEvents' = seenEvents \cup {e}
               /\ eventStore' = eventStore \cup {e}
               /\ eventMetadata' = [eventMetadata EXCEPT ![e] =
                                      [SourceRelay |-> a, Local |-> FALSE, set |-> TRUE]]
               /\ peers' = [peers EXCEPT ![a].lastSeenTimestamp = now]
    /\ ingested' = [by |-> a, ev |-> e, dup |-> e \in seenEvents]
    /\ UNCHANGED <<saveVars, released, historicalSyncRelay, savedTimestamps, file, now, snapshot,
                   loaded, persistVars>>
    /\ UNCHANGED <<connections, created, mu, sessions, peerUp, ctxDone, cl, wk, publishes,
                   broadcasts, localSeen, watch, closeCalls, lockVars>>

\* Stream end: inactive, historical sync released if held, then the backoff.
WorkerStreamEnd(a) ==
    /\ peers[a].pc = "subscribed"
    /\ peers' = [peers EXCEPT ![a].pc = "backoff", ![a].isActive = FALSE,
                              ![a].filter = NoFilter]
    /\ historicalSyncRelay' = Release(a)
    /\ released' = IF "Release" \in watch
                       THEN [by |-> a, found |-> historicalSyncRelay,
                             former |-> released.former \cup
                                           (IF historicalSyncRelay = a THEN {a} ELSE {})]
                       ELSE released
    /\ UNCHANGED <<saveVars, ingested, savedTimestamps, file, now, snapshot, loaded, managerVars, persistVars>>

\* The backoff sleep is over (and the reconnect, after a failure): loop.
WorkerRetry(a) ==
    /\ peers[a].pc = "backoff"
    /\ peers' = [peers EXCEPT ![a].pc = "connecting"]
    /\ UNCHANGED <<saveVars, released, ingested, historicalSyncRelay, savedTimestamps, file, now, snapshot, loaded,
                   managerVars, persistVars>>

\* The worker observes the cancellation (at the top of its loop or after a
\* blocking call) and exits, leaving its connection marked inactive (4.2, 5).
WorkerExit(a) ==
    /\ ctxDone
    /\ peers[a].pc \in {"connecting", "subscribing", "subscribed", "backoff"}
    /\ peers' = [peers EXCEPT ![a].pc = "exited", ![a].isActive = FALSE,
                              ![a].filter = NoFilter]
    /\ UNCHANGED <<saveVars, released, ingested, historicalSyncRelay, savedTimestamps, file, now, snapshot,
                   loaded, managerVars, persistVars>>

\* What Save writes: address -> lastSeenTimestamp of every connection,
\* formatted, with the time of the save.
Snapshot ==
    [a \in {b \in Addrs : peers[b].present} |-> peers[a].lastSeenTimestamp]

Serialize(snap) ==
    [timestamps |-> [a \in DOMAIN snap |-> Format(snap[a])],
     last_saved |-> Format(now)]

\* What loading a file puts in the side-table.
Deserialize(f) == [a \in DOMAIN f.timestamps |-> Parse(f.timestamps[a])]

\* Save(): the snapshot of every connection is written over the file.
WriteSnapshot ==
    /\ file' = Serialize(Snapshot)
    /\ snapshot' = Snapshot
    /\ loaded' = FALSE

\* A Save outside the background task (the one a stream end triggers).
Save ==
    /\ \E a \in Addrs : peers[a].present
    /\ WriteSnapshot
    /\ saver' = "worker"
    /\ UNCHANGED <<saveVars, released, ingested, peers, historicalSyncRelay, savedTimestamps, now, managerVars,
                   shutdown, persister, closed>>

\* A background task that goes on saving on its interval after the final Save.
PersisterIntervalForever ==
    /\ WriteSnapshot
    /\ saver' = "persister"
    /\ UNCHANGED <<saveVars, released, ingested, peers, historicalSyncRelay, savedTimestamps, now, managerVars,
                   shutdown, persister, closed>>

\* The background task wakes on its interval and calls Save.
PersisterInterval ==
    /\ persister = "running"
    /\ WriteSnapshot
    /\ saver' = "persister"
    /\ UNCHANGED <<saveVars, released, ingested, peers, historicalSyncRelay, savedTimestamps, now, managerVars,
                   shutdown, persister, closed>>

\* The background task wakes on the shutdown signal, performs one final Save
\* and terminates.
PersisterFinal ==
    /\ persister = "running"
    /\ shutdown
    /\ WriteSnapshot
    /\ saver' = "persister"
    /\ persister' = "done"
    /\ UNCHANGED <<saveVars, released, ingested, peers, historicalSyncRelay, savedTimestamps, now, managerVars,
                   shutdown, closed>>

\* Close(): raises the shutdown signal, once.  (It then closes the peer
\* sessions, which ends the streams: WorkerStreamEnd, possible at any time.)
CloseShutdown ==
    /\ shutdown' = TRUE
    /\ UNCHANGED <<saveVars, released, ingested, peers, historicalSyncRelay, savedTimestamps, file, now, snapshot,
                   loaded, managerVars, persister, saver, closed>>

\* Close(), after the signal: every peer session is closed and the registry
\* marked closed; Close returns.  (The closed sessions end the streams:
\* WorkerStreamEnd.)
CloseSessions ==
    /\ shutdown
    /\ ~closed
    /\ closed' = TRUE
    /\ UNCHANGED <<saveVars, released, ingested, peers, historicalSyncRelay, savedTimestamps, file,
                   now, snapshot, loaded, managerVars, shutdown, persister, saver>>

\* ---- Save() step by step (4.6): serialized by a lock, the file written in
\* its two parts.
\* A Save is asked for: by the task on its interval or on the shutdown signal
\* (the final one), or asynchronously when the stream of connection v ended.
SaveTrigger(v) ==
    /\ saving[v].pc = "idle"
    /\ IF v = "persister" THEN persister = "running" ELSE peers[v].pc = "backoff"
    /\ saving' = [saving EXCEPT ![v] = [NoSave EXCEPT !.pc = "lock",
                                          !.final = (v = "persister" /\ shutdown)]]
    /\ UNCHANGED <<saveMu, saves, written, released, ingested, peers, historicalSyncRelay,
                   savedTimestamps, file, now, snapshot, loaded, managerVars, persistVars>>

\* A Save that does not wait for the Save in progress.
SaveLockFree(v) ==
    /\ saving[v].pc = "lock"
    /\ saves < MaxSaves
    /\ saveMu' = v
    /\ saves' = saves + 1
    /\ saving' = [saving EXCEPT ![v].pc = "timestamps", ![v].snap = Snapshot,
                                ![v].at = now, ![v].id = saves + 1]
    /\ UNCHANGED <<written, released, ingested, peers, historicalSyncRelay,
                   savedTimestamps, file, now, snapshot, loaded, managerVars, persistVars>>

\* The Save takes the lock (a Save in progress blocks it) and its snapshot of
\* every connection's lastSeenTimestamp.
SaveLock(v) ==
    /\ saving[v].pc = "lock"
    /\ saveMu = ""
    /\ saves < MaxSaves
    /\ saveMu' = v
    /\ saves' = saves + 1
    /\ saving' = [saving EXCEPT ![v].pc = "timestamps", ![v].snap = Snapshot,
                                ![v].at = now, ![v].id = saves + 1]
    /\ UNCHANGED <<written, released, ingested, peers, historicalSyncRelay,
                   savedTimestamps, file, now, snapshot, loaded, managerVars, persistVars>>

\* The write, first part: the file is overwritten from its start with the
\* snapshot's timestamps.
SaveWriteTimestamps(v) ==
    /\ saving[v].pc = "timestamps"
    /\ file' = [file EXCEPT !.timestamps =
                  [a \in DOMAIN saving[v].snap |-> Format(saving[v].snap[a])]]
    /\ written' = [written EXCEPT !.timestamps = saving[v].id]
    /\ saving' = [saving EXCEPT ![v].pc = "last_saved"]
    /\ loaded' = FALSE
    /\ UNCHANGED <<saveMu, saves, released, ingested, peers, historicalSyncRelay,
                   savedTimestamps, now, snapshot, managerVars, persistVars>>

\* The write, second part (the "saved at" time); the lock is released, and
\* the task terminates if this was its final Save.
SaveWriteSavedAt(v) ==
    /\ saving[v].pc = "last_saved"
    /\ file' = [file EXCEPT !.last_saved = Format(saving[v].at)]
    /\ written' = [written EXCEPT !.last_saved = saving[v].id]
    /\ snapshot' = saving[v].snap
    /\ saver' = IF v = "persister" THEN "persister" ELSE "worker"
    /\ persister' = IF saving[v].final THEN "done" ELSE persister
    /\ saveMu' = IF saveMu = v THEN "" ELSE saveMu
    /\ saving' = [saving EXCEPT ![v] = NoSave]
    /\ UNCHANGED <<saves, released, ingested, peers, historicalSyncRelay,
                   savedTimestamps, now, loaded, managerVars, shutdown, closed>>

\* A fresh manager instance on the same file: NewRelayManager, loadTimestamps.
loadTimestamps ==
    /\ peers' = [a \in Addrs |-> NoPeer]
    /\ historicalSyncRelay' = ""
    /\ savedTimestamps' = Deserialize(file)
    /\ loaded' = TRUE
    /\ shutdown' = FALSE
    /\ persister' = "running"
    /\ closed' = FALSE
    /\ released' = NoRelease
    /\ ingested' = NoIngest
    /\ UNCHANGED <<saveVars, file, now, snapshot, managerVars, saver>>

Tick ==
    /\ now < MaxTime
    /\ now' = now + 1
    /\ UNCHANGED <<saveVars, released, ingested, peers, historicalSyncRelay, savedTimestamps, file, snapshot, loaded,
                   managerVars, persistVars>>

NextSync ==
    \/ \E a \in Addrs : ConnectPeer(a)
    \/ \E a \in Addrs : WorkerFilter(a)
    \/ \E a \in Addrs : WorkerSubscribed(a)
    \/ \E a \in Addrs : WorkerSubscribeFailed(a)
    \/ \E a \in Addrs : Ingest(a)
    \/ \E a \in Addrs : WorkerStreamEnd(a)
    \/ \E a \in Addrs : WorkerRetry(a)
    \/ Save
    \/ loadTimestamps
    \/ Tick

SpecSync == Init /\ [][NextSync]_vars

\* The coordinator over restarts and a cancellation: the workers claiming and
\* releasing, subscribes that fail, and the workers' exit.  The clock stands.
InitOwner == Fresh /\ FreshSync /\ watch = {"Release"}

NextOwner ==
    \/ \E a \in Addrs : ConnectPeer(a)
    \/ \E a \in Addrs : WorkerFilter(a)
    \/ \E a \in Addrs : WorkerSubscribed(a)
    \/ \E a \in Addrs : WorkerSubscribeFailed(a)
    \/ \E a \in Addrs : WorkerStreamEnd(a)
    \/ \E a \in Addrs : WorkerRetry(a)
    \/ \E a \in Addrs : WorkerExit(a)
    \/ Save
    \/ loadTimestamps
    \/ Cancel

SpecOwner == InitOwner /\ [][NextOwner]_vars

\* A manager that has loaded, at startup, the table an earlier run saved:
\* no peer, one peer or both peers known.
InitIngest ==
    /\ Fresh
    /\ watch = {}
    /\ peers = [a \in Addrs |-> NoPeer]
    /\ historicalSyncRelay = ""
    /\ savedTimestamps \in {Empty, [a \in {"a1"} |-> 0], [a \in Addrs |-> 0]}
    /\ snapshot = savedTimestamps
    /\ file = [timestamps |-> [a \in DOMAIN savedTimestamps |-> Format(savedTimestamps[a])],
               last_saved |-> 0]
    /\ now = 0
    /\ loaded = TRUE
    /\ shutdown = FALSE
    /\ persister = "running"
    /\ saver = "none"
    /\ closed = FALSE
    /\ released = NoRelease
    /\ ingested = NoIngest
    /\ saveMu = ""
    /\ saving = [v \in Savers |-> NoSave]
    /\ saves = 0
    /\ written = [timestamps |-> 0, last_saved |-> 0]

\* Ingest next to the coordinator and the clock: connections that subscribe,
\* receive events (new ones and duplicates) and lose their streams.
NextIngest ==
    \/ \E a \in Addrs : ConnectPeer(a)
    \/ \E a \in Addrs : WorkerFilter(a)
    \/ \E a \in Addrs : WorkerSubscribed(a)
    \/ \E a \in Addrs : \E e \in EventIDs : IngestEvent(a, e)
    \/ \E a \in Addrs : WorkerStreamEnd(a)
    \/ \E a \in Addrs : WorkerRetry(a)
    \/ Tick

SpecIngest == InitIngest /\ [][NextIngest]_vars

\* One run of the manager up to its shutdown: the workers, the clock, the
\* Persister's task and Close.  Once the shutdown signal is raised the task's
\* select on it stays ready until it is taken, so the final Save is weakly fair.
NextPersist ==
    \/ \E a \in Addrs : ConnectPeer(a)
    \/ \E a \in Addrs : WorkerFilter(a)
    \/ \E a \in Addrs : WorkerSubscribed(a)
    \/ \E a \in Addrs : Ingest(a)
    \/ \E a \in Addrs : WorkerStreamEnd(a)
    \/ \E a \in Addrs : WorkerRetry(a)
    \/ Save
    \/ PersisterInterval
    \/ PersisterFinal
    \/ CloseShutdown
    \/ Tick

SpecPersist == Init /\ [][NextPersist]_vars /\ WF_vars(PersisterFinal)

\* The same run with both halves of Close: the signal, then the sessions.
NextShutdown == NextPersist \/ CloseSessions

SpecShutdown == Init /\ [][NextShutdown]_vars

\* The Saves in their steps, next to the connections whose times they read
\* (each up to the end of its first stream), the clock and the shutdown signal.
NextSave ==
    \/ \E a \in Addrs : ConnectPeer(a)
    \/ \E a \in Addrs : WorkerFilter(a)
    \/ \E a \in Addrs : WorkerSubscribed(a)
    \/ \E a \in Addrs : WorkerStreamEnd(a)
    \/ \E v \in Savers : SaveTrigger(v)
    \/ \E v \in Savers : SaveLock(v)
    \/ \E v \in Savers : SaveWriteTimestamps(v)
    \/ \E v \in Savers : SaveWriteSavedAt(v)
    \/ CloseShutdown
    \/ Tick

SpecSave == Init /\ [][NextSave]_vars

\* The Subscribe loop without the event handling.
SubscribeLoop(w) ==
    \/ SubscribeTop(w)
    \/ SubscribeCall(w)
    \/ SleepAfterFailure(w)
    \/ reconnectClose(w)
    \/ reconnectDial(w)
    \/ StreamEnd(w)
    \/ SleepAfterStreamEnd(w)

Environment ==
    \/ \E u \in Addrs : PeerDown(u)
    \/ \E u \in Addrs : PeerBack(u)
    \/ Cancel

\* Every operation of manager.go, interleaved.
Next ==
    \/ \E c \in Clients : Connect(c)
    \/ \E w \in Workers : Subscribe(w)
    \/ \E c \in Clients : Broadcast(c)
    \/ \E p \in publishes : PublishReturns(p)
    \/ \E c \in Clients : GetAllEvents(c)
    \/ \E c \in Clients : StartSubscriptions(c)
    \/ \E c \in Clients : Close(c)
    \/ Environment

Spec == Init /\ [][Next]_vars

\* The registry: callers of Connect, the workers it spawns (which set the
\* active flags and reopen sessions) and the peers.  Events and Broadcast
\* touch neither the registry nor the sessions.
InitConnect == Fresh /\ FreshSync /\ watch = {"Connect"}

NextConnect ==
    \/ \E c \in Clients : Connect(c)
    \/ \E w \in Workers : SubscribeLoop(w)
    \/ Environment

SpecConnect == InitConnect /\ [][NextConnect]_vars

\* The deduplicator and the store: workers of connected peers ingesting,
\* callers broadcasting.  The subscriptions end by cancellation.
InitEvents == Fresh /\ FreshSync /\ watch = {}

NextEvents ==
    \/ \E c \in Clients : Connect(c)
    \/ \E w \in Workers : \/ SubscribeTop(w)
                          \/ SubscribeCall(w)
                          \/ \E e \in EventIDs : StreamEvent(w, e)
                          \/ handleIncomingEventSeen(w)
                          \/ handleIncomingEventStore(w)
                          \/ StreamEnd(w)
                          \/ SleepAfterStreamEnd(w)
    \/ \E c \in Clients : Broadcast(c)
    \/ \E p \in publishes : PublishReturns(p)
    \/ Cancel

SpecEvents == InitEvents /\ [][NextEvents]_vars

\* The fan-out: connections whose active flags and sessions the workers
\* change, callers broadcasting one event, the publish goroutines.
InitBroadcast == Fresh /\ FreshSync /\ watch = {"Broadcast"}

NextBroadcast ==
    \/ \E c \in Clients : Connect(c)
    \/ \E w \in Workers : SubscribeLoop(w)
    \/ \E c \in Clients : BroadcastSeen(c, "e1") \/ BroadcastMeta(c) \/ BroadcastFanout(c)
    \/ \E p \in publishes : PublishReturns(p)
    \/ Environment

SpecBroadcast == InitBroadcast /\ [][NextBroadcast]_vars

\* The store and its readers: workers ingesting, callers broadcasting and
\* calling GetAllEvents.
InitStore == Fresh /\ FreshSync /\ watch = {"GetAllEvents"}

NextStore ==
    \/ \E c \in Clients : Connect(c)
    \/ \E w \in Workers : \/ SubscribeTop(w)
                          \/ SubscribeCall(w)
                          \/ \E e \in EventIDs : StreamEvent(w, e)
                          \/ handleIncomingEventSeen(w)
                          \/ handleIncomingEventStore(w)
    \/ \E c \in Clients : Broadcast(c)
    \/ \E c \in Clients : GetAllEvents(c)

SpecStore == InitStore /\ [][NextStore]_vars

\* Shutdown: callers of Connect and Close, and the workers, whose reconnects
\* meet the sessions Close has closed.
InitClose == Fresh /\ FreshSync /\ watch = {"Close"}

NextClose ==
    \/ \E c \in Clients : Connect(c)
    \/ \E w \in Workers : SubscribeLoop(w)
    \/ \E c \in Clients : Close(c)

SpecClose == InitClose /\ [][NextClose]_vars

\* Startup as in main: Connect for the configured relays, running next to
\* StartSubscriptions, and the workers both of them start.
InitStart == Fresh /\ FreshSync /\ watch = {"StartSubscriptions"}

NextStart ==
    \/ \E c \in Clients : Connect(c)
    \/ \E c \in Clients : StartSubscriptions(c)
    \/ \E w \in Workers : SubscribeLoop(w)
    \/ Environment

SpecStart == InitStart /\ [][NextStart]_vars

\* The Subscribe loop on a stream that carries one event, again and again.
SubscribeOneEvent(w) ==
    \/ SubscribeLoop(w)
    \/ StreamEvent(w, "e1")
    \/ handleIncomingEventSeen(w)
    \/ handleIncomingEventStore(w)

\* The workers over their whole life: one caller connecting, the Subscribe
\* goroutines with their event handling, the peers and the context.  A
\* goroutine that can take a step takes it: every blocking peer call and
\* every sleep returns.
InitWorkers == Fresh /\ FreshSync /\ watch = {}

NextWorkers ==
    \/ Connect(1)
    \/ \E w \in Workers : SubscribeOneEvent(w)
    \/ Environment

SpecWorkers == InitWorkers /\ [][NextWorkers]_vars
                  /\ \A w \in Workers : WF_vars(SubscribeOneEvent(w))

\* Startup as in main with a third session to hand out: both workers of one
\* connection can reconnect it.
InitReopen == FreshOn(1..MaxReopened) /\ FreshSync /\ watch = {}

SpecReopen == InitReopen /\ [][NextStart]_vars

\* The registry under everything that runs next to it: callers connecting,
\* one of them broadcasting and one closing, the workers with their
\* reconnects, the publish goroutines and the context.
InitRegistry == Fresh /\ FreshSync /\ watch = {}

NextRegistry ==
    \/ \E c \in Clients : Connect(c)
    \/ \E w \in Workers : SubscribeLoop(w)
    \/ BroadcastSeen(1, "e1") \/ BroadcastMeta(1) \/ BroadcastFanout(1)
    \/ \E p \in publishes : PublishReturns(p)
    \/ Close(2)
    \/ Cancel

SpecRegistry == InitRegistry /\ [][NextRegistry]_vars

\* ============================================================ properties
\* --------------------------------------------------- registry (SpecConnect)
\* A caller whose Connect has returned, with what it got back.
Returned(c, r) == cl[c].pc = "idle" /\ cl[c].op = "Connect" /\ cl[c].ret = r

\* C1, the state part: every RelayConnection that Connect built is the one the
\* registry holds (no second handshake, no second entry for a URL), and every
\* call that returned nil found the connection the registry still holds.
OneConnectionPerURL ==
    /\ created = Cardinality(Registered)
    /\ \A c \in Clients :
          Returned(c, "nil") => /\ Exists(cl[c].url)
                                /\ cl[c].obs = connections[cl[c].url].id

\* C1, the step part: a registered connection is never replaced or removed; a
\* call that finds the URL registered returns nil at once; a call that dials
\* a reachable peer returns nil.
ConnectionKept ==
    /\ \A u \in URLs : Exists(u) => connections'[u].id = connections[u].id
    /\ \A c \in Clients :
          /\ (cl[c].pc = "idle" /\ cl'[c] # cl[c] /\ cl'[c].pc = "idle")
                => /\ Returned(c, "nil")'
                   /\ Exists(cl'[c].url)
                   /\ UNCHANGED <<connections, created, sessions, wk>>
          /\ (cl[c].pc = "dial" /\ cl'[c].pc = "idle" /\ RelayConnectOK(cl[c].url))
                => Returned(c, "nil")'

\* C1: Connect(A) called more than once, one call after or during another,
\* against a reachable peer, leaves exactly one connection for A; every call
\* returns nil and sees the same connection, which is never replaced.
C1_ConnectIdempotent == []OneConnectionPerURL /\ [][ConnectionKept]_vars

\* Two calls of Connect for one URL have returned nil with the same connection.
C1_Witness ==
    /\ Returned(1, "nil") /\ Returned(2, "nil")
    /\ cl[1].url = "a1" /\ cl[2].url = "a1"
    /\ cl[1].obs = cl[2].obs
    /\ Registered = {"a1"}

Undisturbed == ~ctxDone /\ \A s \in Sessions : sessions[s].st # "closed"

\* Two callers have returned nil from Connect to two distinct URLs.
BothConnected(c, d) ==
    /\ c # d
    /\ Returned(c, "nil") /\ Returned(d, "nil")
    /\ cl[c].url # cl[d].url

\* C7: after concurrent Connects to two distinct reachable addresses have both
\* returned nil, the registry has exactly two entries, both active.
C7_TwoConnections ==
    \A c, d \in Clients :
       (BothConnected(c, d) /\ Undisturbed)
          => /\ Cardinality(Registered) = 2
             /\ \A u \in {cl[c].url, cl[d].url} : Exists(u) /\ connections[u].active

\* Both calls have returned, the second having waited for the first's dial,
\* and both workers are consuming their subscriptions.
C7_Witness ==
    /\ BothConnected(1, 2) /\ Undisturbed
    /\ \A w \in Workers : wk[w].pc = "stream"
    /\ Registered = Addrs

\* --------------------------------------------- deduplication (SpecEvents)
\* Worker w is between the two sections of handleIncomingEvent for event e.
Storing(w, e) == wk[w].pc = "store" /\ wk[w].ev = e

\* C3, the state part: at most one Ingest of an identifier is ever past the
\* deduplicator, and once it has finished the store holds the event.
OneIngestPerID ==
    /\ \A v, w \in Workers : \A e \in EventIDs :
          (Storing(v, e) /\ Storing(w, e)) => v = w
    /\ \A e \in eventStore : e \in seenEvents /\ \A w \in Workers : ~Storing(w, e)
    /\ \A e \in seenEvents \ localSeen :
          e \in eventStore \/ \E w \in Workers : Storing(w, e)

\* C3, the step part: an Ingest that finds the identifier marked changes
\* nothing, and an identifier is written to the store once.
DuplicateIsNoOp ==
    \A w \in Workers :
       /\ (wk[w].pc = "handle" /\ wk'[w].pc # "handle" /\ wk[w].ev \in seenEvents)
             => /\ wk'[w].pc = "stream"
                /\ UNCHANGED <<eventStore, eventMetadata, seenEvents>>
       /\ (wk[w].pc = "store" /\ wk'[w].pc # "store")
             => /\ wk[w].ev \notin eventStore
                /\ eventStore' = eventStore \cup {wk[w].ev}

\* C3: however Ingests of one identifier interleave, from one source or from
\* several workers at once, the store gets exactly one record for it and
\* every Ingest after the first to mark it seen changes nothing.
C3_IngestOnce == []OneIngestPerID /\ [][DuplicateIsNoOp]_vars

\* Two workers of different peers have ingested the same event: one stored
\* it, the other found it marked.
C3_Witness ==
    \E v, w \in Workers :
       /\ wk[v].url # wk[w].url
       /\ wk[v].ev = wk[w].ev /\ wk[v].ev \in eventStore \ localSeen
       /\ wk[v].pc = "stream" /\ wk[v].last = "new"
       /\ wk[w].pc = "stream" /\ wk[w].last = "dup"

\* C4: once Broadcast has marked an event seen, a later Ingest of it is a
\* no-op: store, metadata (still local) and deduplication set are unchanged
\* by it, and the identifier stays marked.
C4_EchoIsNoOp ==
    [][/\ localSeen \subseteq seenEvents
       /\ \A w \in Workers :
            (wk[w].pc = "handle" /\ wk'[w].pc # "handle" /\ wk[w].ev \in localSeen)
               => /\ wk'[w].pc = "stream" /\ wk'[w].last = "dup"
                  /\ UNCHANGED <<eventStore, eventMetadata, seenEvents, connections,
                                 publishes>>]_vars

\* A peer has echoed a broadcast event back: the Ingest returned, the event is
\* not in the store and its metadata is the local one.
C4_Witness ==
    \E w \in Workers :
       /\ wk[w].pc = "stream" /\ wk[w].last = "dup"
       /\ wk[w].ev \in localSeen /\ wk[w].ev \notin eventStore
       /\ eventMetadata[wk[w].ev] = [SourceRelay |-> "local", Local |-> TRUE, set |-> TRUE]

\* ------------------------------------------------- fan-out (SpecBroadcast)
\* C5: the fan-out of a Broadcast starts one publish of its event for every
\* connection that is active when the loop examines it, on that connection's
\* session, and none for any other.
C5_FanOut ==
    [][\A c \in Clients :
          (cl[c].pc = "bfan" /\ cl'[c].pc = "idle")
             => LET started == publishes' \ publishes
                IN /\ \A u \in URLs :
                        Cardinality({p \in started : p.url = u})
                          = IF connections[u].id # 0 /\ connections[u].active
                               THEN 1 ELSE 0
                   /\ \A p \in started : /\ p.ev = cl[c].ev
                                         /\ p.relay = connections[p.url].Relay
                                         /\ p.st = "pending"
                                         /\ p \notin publishes]_vars

\* A Broadcast whose loop visited two connections started one publish: one of
\* the two was inactive.
C5_Witness ==
    \E c \in Clients :
       /\ cl[c].pc = "idle" /\ cl[c].op = "Broadcast" /\ cl[c].obs = 2
       /\ Cardinality(publishes) = 1

\* C6: a publish that returns, failed or not, changes only its own outcome:
\* registry, active flags, sessions, store, deduplication set, the other
\* publishes and the callers are untouched, and the Broadcast that started it
\* has returned nil or returns nil.
C6_PublishFailure ==
    [][(\E p \in publishes : p.st = "pending" /\ p \notin publishes')
          => /\ UNCHANGED <<connections, created, mu, sessions, eventStore,
                            eventMetadata, seenEvents, wk, cl>>
             /\ Cardinality(publishes \ publishes') = 1
             /\ Cardinality(publishes' \ publishes) = 1
             /\ \A c \in Clients : cl[c].op = "Broadcast" /\ cl[c].pc = "idle"
                                      => cl[c].ret = "nil"]_vars

\* One publish of a Broadcast has failed, the one to the other peer went
\* through, and the caller got nil.
C6_Witness ==
    \E p, q \in publishes :
       /\ p.bid = q.bid /\ p.url # q.url
       /\ p.st = "failed" /\ q.st = "ok"
       /\ \E c \in Clients : cl[c].op = "Broadcast" /\ cl[c].pc = "idle" /\ cl[c].ret = "nil"
       /\ \A u \in Addrs : connections[u].active

\* ------------------------------------- historical sync, snapshot (SpecSync)
\* C8, the state part: the owner is empty or a registered connection that is
\* not a first-time one.
OwnerIsReconnecting ==
    \/ historicalSyncRelay = ""
    \/ /\ historicalSyncRelay \in Addrs
       /\ peers[historicalSyncRelay].present
       /\ ~peers[historicalSyncRelay].isFirstConnection

\* C8, the step part: the owner becomes an address only from empty, and only
\* by that address's worker building its filter.
OwnerClaimedFromEmpty ==
    (historicalSyncRelay' # historicalSyncRelay /\ historicalSyncRelay' # "")
       => /\ historicalSyncRelay = ""
          /\ peers[historicalSyncRelay'].pc = "connecting"
          /\ peers'[historicalSyncRelay'].pc = "subscribing"

\* C8: the historical-sync owner is always empty or the address of one
\* registered connection that is not a first-time one, and it becomes
\* non-empty only by a claim made while it was empty.
C8_SyncOwner == []OwnerIsReconnecting /\ [][OwnerClaimedFromEmpty]_vars

\* A reconnecting peer owns historical sync while the other peer, a
\* first-time one, is registered too.
C8_Witness ==
    \E a, b \in Addrs :
       /\ historicalSyncRelay = a
       /\ peers[b].present /\ peers[b].isFirstConnection
       /\ peers[b].filter.kind = "recent"

\* A subscribe attempt of `a` is under way or live with a filter of kind k.
Requests(a, k) ==
    peers[a].pc \in {"subscribing", "subscribed"} /\ peers[a].filter.kind = k

\* C9: of two reconnecting connections that build their filters while the
\* owner is empty exactly one claims: a filter with a since-value is held by
\* the owner only, its since-value is the connection's lastSeenTimestamp when
\* it is built, and the filter of any other reconnecting connection asks for
\* forward events only.
C9_SingleBackfill ==
    \A a \in Addrs :
       /\ Requests(a, "since")
            => /\ historicalSyncRelay = a
               /\ peers[a].pc = "subscribing"
                     => peers[a].filter.since = peers[a].lastSeenTimestamp
       /\ (peers[a].present /\ ~peers[a].isFirstConnection
             /\ peers[a].pc \in {"subscribing", "subscribed"}
             /\ historicalSyncRelay # a)
            => peers[a].filter = [kind |-> "forward", since |-> 0]

\* Two peers reconnect after a restart with persisted times; both subscribe
\* attempts are under way: one claimed and asks since its persisted time, the
\* other asks for forward events.
C9_Witness ==
    \E a, b \in Addrs :
       /\ a # b
       /\ DOMAIN savedTimestamps = Addrs
       /\ peers[a].pc = "subscribing" /\ peers[b].pc = "subscribing"
       /\ historicalSyncRelay = a
       /\ peers[a].filter = [kind |-> "since", since |-> savedTimestamps[a]]
       /\ savedTimestamps[a] > 0
       /\ peers[b].filter = [kind |-> "forward", since |-> 0]

\* C10: after a Save and a load into a fresh manager, the saved-timestamps
\* table has exactly the saved addresses, each with its saved time cut to the
\* snapshot's resolution.
C10_RoundTrip ==
    loaded => /\ DOMAIN savedTimestamps = DOMAIN snapshot
              /\ \A a \in DOMAIN snapshot :
                    /\ savedTimestamps[a] <= snapshot[a]
                    /\ snapshot[a] - savedTimestamps[a] < Resolution

\* Two connections were saved, one of them with a time between two seconds,
\* and a fresh manager has loaded the file.
C10_Witness ==
    /\ loaded
    /\ DOMAIN snapshot = Addrs
    /\ \E a, b \in Addrs : /\ snapshot[a] # snapshot[b]
                           /\ savedTimestamps[a] # snapshot[a]
                           /\ savedTimestamps[b] = snapshot[b]
                           /\ snapshot[b] > 0

\* C11, the step part: the step that registers a connection decides
\* isFirstConnection and lastSeenTimestamp from the saved-timestamps table, and
\* no step of a registered connection changes isFirstConnection.
CreatedFromSavedTable ==
    \A a \in Addrs :
       /\ (~peers[a].present /\ peers'[a].present)
             => /\ peers'[a].isFirstConnection = (a \notin DOMAIN savedTimestamps)
                /\ peers'[a].lastSeenTimestamp =
                      IF a \in DOMAIN savedTimestamps THEN savedTimestamps[a] ELSE now
       /\ (peers[a].present /\ peers'[a].present)
             => peers'[a].isFirstConnection = peers[a].isFirstConnection

\* C11: a successful Connect(A) creates the connection as a first-time one
\* exactly when the saved-timestamps table has no entry for A, with
\* lastSeenTimestamp the saved value if there is one and the current time
\* otherwise; isFirstConnection never changes afterwards.
C11_FirstConnection ==
    /\ [](\A a \in Addrs : peers[a].present
             => peers[a].isFirstConnection = (a \notin DOMAIN savedTimestamps))
    /\ [][CreatedFromSavedTable]_vars

\* After a restart one peer is known from the table and the other is not; the
\* known one has ingested since, and both keep what Connect decided.
C11_Witness ==
    \E a, b \in Addrs :
       /\ peers[a].present /\ ~peers[a].isFirstConnection
       /\ a \in DOMAIN savedTimestamps
       /\ peers[a].lastSeenTimestamp > savedTimestamps[a]
       /\ peers[b].present /\ peers[b].isFirstConnection
       /\ b \notin DOMAIN savedTimestamps
       /\ peers[b].pc = "subscribed"

\* ------------------------------------------------ Persister (SpecPersist)
\* C12, the step part: the task terminates only on the shutdown signal and by
\* a Save of every registered connection's lastSeenTimestamp; once it has
\* terminated it stays so and makes no Save.
FinalSaveThenStop ==
    /\ (persister = "running" /\ persister' = "done")
          => /\ shutdown
             /\ saver' = "persister"
             /\ DOMAIN snapshot' = {a \in Addrs : peers[a].present}
             /\ \A a \in DOMAIN snapshot' : snapshot'[a] = peers[a].lastSeenTimestamp
             /\ file'.timestamps = [a \in DOMAIN snapshot' |-> Format(snapshot'[a])]
    /\ persister = "done"
          => /\ persister' = "done"
             /\ saver' = "persister" => UNCHANGED <<file, snapshot, saver>>

\* C12: once Close has raised the shutdown signal the Persister eventually
\* makes one final Save recording address -> lastSeenTimestamp of every
\* registered connection, then terminates and saves no more.
C12_FinalSave ==
    /\ shutdown ~> (persister = "done")
    /\ [][FinalSaveThenStop]_vars

\* The task has terminated after a final Save of two connections with
\* different times, and nothing was saved since.
C12_Witness ==
    /\ shutdown /\ persister = "done" /\ saver = "persister"
    /\ DOMAIN snapshot = Addrs
    /\ snapshot["a1"] # snapshot["a2"]
    /\ \A a \in Addrs : snapshot[a] = peers[a].lastSeenTimestamp

\* ------------------------------------------------------ shutdown (SpecClose)
\* C13: Close is idempotent: a second call has no further effect, and no peer
\* session has Close called on it a second time.
C13_CloseIdempotent == \A s \in Sessions : closeCalls[s] <= 1

\* ------------------------------------------------------- readers (SpecStore)
\* C14: what GetAllEvents returns is the content of the store at the instant
\* of the call, one event per stored identifier, and what a caller holds is
\* not changed by the Ingests and Broadcasts that follow.
C14_PointInTime ==
    [][\A c \in Clients :
          (cl'[c].pc = "idle" /\ cl'[c].op = "GetAllEvents")
             => \/ cl'[c] = cl[c]
                \/ /\ cl[c].pc = "idle"
                   /\ cl'[c].snap = eventStore
                   /\ eventStore' = eventStore]_vars

\* A caller holds the store as it was with one event; a second event was
\* ingested since.
C14_Witness ==
    \E c \in Clients :
       /\ cl[c].pc = "idle" /\ cl[c].op = "GetAllEvents"
       /\ cl[c].snap # {} /\ cl[c].snap # eventStore
       /\ eventStore = EventIDs

\* ----------------------------------------- subscribe failures (SpecConnect)
\* C15, the step part: a subscribe that fails clears the active flag and sends
\* the worker to its backoff, a reconnect that fails sends it back to the
\* top; neither touches the registry's membership or any caller.
FailureStaysInWorker ==
    \A w \in Workers :
       /\ (wk[w].pc = "sub" /\ wk'[w].pc # "sub" /\ ~SubscribeOK(connections[wk[w].url].Relay))
             => /\ wk'[w].pc = "sleepFail"
                /\ connections' = SetActive(wk[w].url, FALSE)
                /\ UNCHANGED <<cl, created, sessions, mu>>
       /\ (wk[w].pc = "dial" /\ wk'[w].pc # "dial" /\ ~RelayConnectOK(wk[w].url))
             => /\ wk'[w].pc = "top"
                /\ UNCHANGED <<cl, connections, created, sessions, mu>>

\* C15: once the handshake for A has succeeded Connect(A) has returned nil and
\* A stays registered whatever happens to the worker's subscribe attempts; a
\* subscribe failure only moves the worker to backoff and reconnect.
C15_SubscribeFailureInternal ==
    /\ [](\A w \in Workers : wk[w].pc # "unborn" => Exists(wk[w].url))
    /\ [][FailureStaysInWorker]_vars

\* The caller of Connect got nil; the worker's subscribe has failed since and
\* its reconnect too, and the connection is still registered.
C15_Witness ==
    \E c \in Clients : \E w \in Workers :
       /\ Returned(c, "nil") /\ cl[c].url = wk[w].url
       /\ wk[w].pc = "top" /\ wk[w].backoff > InitialBackoff
       /\ Exists(cl[c].url) /\ ~connections[cl[c].url].active

\* ------------------------------------------ store and marks (SpecEvents)
\* C16: the deduplication set always contains the store's keys: an
\* identifier is marked before its event is written (an Ingest between its
\* two sections has marked it already), and no identifier is ever unmarked.
C16_SeenCoversStore ==
    /\ [](/\ eventStore \subseteq seenEvents
          /\ \A w \in Workers : wk[w].pc = "store" => wk[w].ev \in seenEvents)
    /\ [][seenEvents \subseteq seenEvents']_vars

\* One identifier is marked and stored, the other is marked by Broadcast
\* only, and an Ingest of it has been turned away.
C16_Witness ==
    \E e, f \in EventIDs :
       /\ e \in eventStore /\ f \in seenEvents \ eventStore
       /\ f \in localSeen /\ e \notin localSeen
       /\ \E w \in Workers : wk[w].ev = f /\ wk[w].last = "dup" /\ wk[w].pc = "stream"

\* C17: once an identifier has its record (the stored event, the metadata) no
\* later Ingest or Broadcast of it changes the record: the metadata of an
\* ingested event stays that of its source, and the metadata Broadcast wrote
\* is not replaced by an Ingest.
C17_RecordImmutable ==
    [][\A e \in EventIDs :
          /\ e \in eventStore => e \in eventStore'
          /\ eventMetadata[e].set => eventMetadata'[e] = eventMetadata[e]]_vars

\* ---------------------------------------------------- backoff (SpecConnect)
\* The worker's goroutine is running.
Running(w) == wk[w].pc \notin {"unborn", "exited"}

\* C18, the step part: the sleep after a failed subscribe uses the current
\* backoff, which is doubled and capped when the sleep is over; a failing
\* subscribe and a failing reconnect leave it as it is.
BackoffDoubles ==
    \A w \in Workers :
       /\ (wk[w].pc = "sleepFail" /\ wk'[w].pc # "sleepFail")
             => wk'[w].backoff = IF 2 * wk[w].backoff > MaxBackoff
                                    THEN MaxBackoff ELSE 2 * wk[w].backoff
       /\ (wk[w].pc = "sub" /\ wk'[w].pc = "sleepFail")
             => wk'[w].backoff = wk[w].backoff
       /\ (wk[w].pc = "dial" /\ wk'[w].pc = "top" /\ ~RelayConnectOK(wk[w].url))
             => wk'[w].backoff = wk[w].backoff

\* C18: a running worker's backoff is between 5 and 60 seconds, one of 5, 10,
\* 20, 40, 60; over subscribe failures whose reconnects fail too each sleep
\* uses the current value, which is then doubled up to 60.
C18_BackoffRange ==
    /\ [](\A w \in Workers : Running(w) =>
             /\ InitialBackoff <= wk[w].backoff /\ wk[w].backoff <= MaxBackoff
             /\ wk[w].backoff \in {5, 10, 20, 40, 60})
    /\ [][BackoffDoubles]_vars

\* After repeated failures a worker is about to sleep the ceiling.
C18_Witness ==
    \E w \in Workers : wk[w].pc = "sleepFail" /\ wk[w].backoff = MaxBackoff

\* C19, the step part: a subscribe that succeeds and a reconnect that succeeds
\* set the backoff to the floor; a reconnect that fails leaves it at the
\* doubled value.
BackoffResets ==
    \A w \in Workers :
       /\ (wk[w].pc = "sub" /\ wk'[w].pc = "stream") => wk'[w].backoff = InitialBackoff
       /\ (wk[w].pc = "dial" /\ wk'[w].pc = "top")
             => wk'[w].backoff = IF RelayConnectOK(wk[w].url) THEN InitialBackoff
                                                               ELSE wk[w].backoff
       /\ wk[w].pc = "dial" => wk[w].backoff > InitialBackoff

\* C19: the backoff is reset to the floor by every subscribe success and
\* every reconnect success and kept by a reconnect failure, so a worker that
\* consumes a stream, and the sleep after the stream's end, have the floor.
C19_BackoffReset ==
    /\ [](\A w \in Workers : wk[w].pc \in {"stream", "sleepEnd"}
                                => wk[w].backoff = InitialBackoff)
    /\ [][BackoffResets]_vars

\* A worker whose backoff had grown has reconnected, subscribed again, lost
\* the stream and is about to sleep the floor.
C19_Witness ==
    \E w \in Workers :
       /\ wk[w].pc = "sleepEnd" /\ wk[w].backoff = InitialBackoff
       /\ \E s \in Sessions : /\ sessions[s].st = "closed"
                              /\ sessions[s].url = wk[w].url
                              /\ connections[wk[w].url].Relay # s

\* ------------------------------------------------ active flag (SpecConnect)
\* The worker of connection u is consuming a subscription.
Live(u) == \E w \in Workers : wk[w].url = u /\ wk[w].pc = "stream"

ActiveSetAndCleared ==
    \A u \in URLs :
       /\ (~Exists(u) /\ Exists(u)') => connections'[u].active
       /\ (Exists(u) /\ ~connections[u].active /\ connections'[u].active)
             => \E w \in Workers :
                   /\ wk[w].url = u
                   /\ \/ wk[w].pc = "sub" /\ wk'[w].pc = "stream"
                      \/ wk[w].pc = "dial" /\ wk'[w].pc = "top" /\ RelayConnectOK(u)
       /\ (Exists(u) /\ connections[u].active /\ ~connections'[u].active)
             => \E w \in Workers :
                   /\ wk[w].url = u
                   /\ \/ wk[w].pc = "sub" /\ wk'[w].pc = "sleepFail"
                      \/ wk[w].pc = "stream" /\ wk'[w].pc = "sleepEnd"
       /\ \A w \in Workers :
             (wk[w].url = u /\ wk[w].pc = "dial" /\ wk'[w].pc = "top" /\ RelayConnectOK(u))
                => connections'[u].active

WorkersOf(u) == {w \in Workers : Running(w) /\ wk[w].url = u}

\* C21: at most one Subscribe worker is running for any connection at any
\* time, however Connect and StartSubscriptions interleave.
C21_OneWorkerPerConnection == \A u \in URLs : Cardinality(WorkersOf(u)) <= 1

\* ------------------------------------------------- cancellation (SpecWorkers)
\* C22: once the context is cancelled every running worker eventually exits,
\* whether it was about to subscribe, consuming the stream, handling an
\* event, sleeping in backoff or reconnecting.
C22_WorkersExit ==
    \A w \in Workers : (ctxDone /\ Running(w)) ~> (wk[w].pc = "exited")

\* After the cancellation no worker is running; one has exited that had been
\* through a failed subscribe and a successful reconnect before.
C22_Witness ==
    /\ ctxDone
    /\ \A w \in Workers : ~Running(w)
    /\ \E w \in Workers : \E s \in Sessions :
          /\ wk[w].pc = "exited"
          /\ sessions[s].st = "closed" /\ sessions[s].url = wk[w].url
          /\ connections[wk[w].url].Relay # s

\* C23: a worker that has exited on cancellation has left its connection
\* marked inactive: no connection whose worker has terminated is active.
C23_ExitedInactive ==
    \A w \in Workers : wk[w].pc = "exited" => ~connections[wk[w].url].active

\* ------------------------------------------------- supervision (SpecWorkers)
\* The worker is between two subscribe attempts: sleeping after a failed
\* subscribe, reconnecting, or sleeping after the end of a stream.
Waiting(w) == wk[w].pc \in {"sleepFail", "reconn", "dial", "sleepEnd"}

\* The reconnect's dial would succeed but every modelled session is in use.
SessionsUsedUp(w) == wk[w].pc = "dial" /\ FreeSessions = {}

PeerUnreachable(w) == wk[w].url \in Addrs /\ ~peerUp[wk[w].url]

\* C24: a worker terminates only when the context is cancelled; after every
\* subscribe failure, reconnect failure and stream end it comes to another
\* subscribe attempt (or exits on cancellation), and while its peer stays
\* reachable the attempts end in a live subscription.
C24_WorkerKeepsTrying ==
    /\ [][\A w \in Workers : (Running(w) /\ wk'[w].pc = "exited") => ctxDone]_vars
    /\ \A w \in Workers :
          Waiting(w) ~> (wk[w].pc \in {"sub", "exited"} \/ SessionsUsedUp(w))
    /\ \A w \in Workers :
          Waiting(w) ~> (wk[w].pc = "stream" \/ PeerUnreachable(w) \/ ctxDone
                            \/ SessionsUsedUp(w))

\* Under a live context a worker is consuming a stream on the session its
\* reconnect opened, after the session Connect had opened was lost.
C24_Witness ==
    \E w \in Workers : \E s \in Sessions :
       /\ ~ctxDone /\ wk[w].pc = "stream"
       /\ sessions[s].st = "closed" /\ sessions[s].url = wk[w].url
       /\ connections[wk[w].url].Relay # s
       /\ wk[w].sub = connections[wk[w].url].Relay

\* ------------------------------------------------- coordinator (SpecOwner)
\* C25, the step part: the Release a stream end makes leaves the owner as it
\* is when the releasing connection is not the owner, and clears it when it is.
ReleaseOnlyOwn ==
    \A a \in Addrs :
       (peers[a].pc = "subscribed" /\ peers'[a].pc = "backoff")
          => historicalSyncRelay' = IF historicalSyncRelay = a THEN ""
                                                               ELSE historicalSyncRelay

\* C25: Release(address) by an address that is not the owner leaves the owner
\* unchanged; a stale Release by a former owner does not clear the ownership
\* another peer has claimed since.
C25_ReleaseByNonOwner ==
    /\ [](\A a \in Addrs : historicalSyncRelay # a => Release(a) = historicalSyncRelay)
    /\ [][ReleaseOnlyOwn]_vars

\* A former owner has just released while another peer owned, and that peer
\* still owns.
C25_Witness ==
    /\ released.by \in released.former
    /\ released.found \notin {"", released.by}
    /\ historicalSyncRelay = released.found

\* The connection has a subscription live or being attempted.
Subscribing(a) == peers[a].pc \in {"subscribing", "subscribed"}

\* C26: ownership is released when the owning connection's subscription
\* ends, whichever way it ends (stream end, failure of the subscribe attempt
\* that claimed, exit of the worker on cancellation): the owner is never a
\* connection whose worker has terminated or that has no subscription live
\* or being attempted.
C26_OwnerIsSubscribing ==
    historicalSyncRelay \in Addrs => Subscribing(historicalSyncRelay)

\* C27, the step part: a first-time connection's worker builds the
\* recent-window filter at every attempt and leaves the owner as it is.
FirstTimeFilter ==
    \A a \in Addrs :
       (peers[a].isFirstConnection /\ peers[a].pc = "connecting"
          /\ peers'[a].pc = "subscribing")
          => /\ peers'[a].filter = [kind |-> "recent", since |-> 0]
             /\ historicalSyncRelay' = historicalSyncRelay

\* C27: a first-time connection never becomes the historical-sync owner, and
\* every subscribe attempt it makes, also after a disconnect in the same
\* process, requests the bounded recent window, without a since-value.
C27_FirstTimeNeverOwns ==
    /\ [](\A a \in Addrs : (peers[a].present /\ peers[a].isFirstConnection)
             => /\ historicalSyncRelay # a
                /\ Subscribing(a) => peers[a].filter = [kind |-> "recent", since |-> 0])
    /\ [][FirstTimeFilter]_vars

\* A first-time connection whose stream has ended subscribes again, with the
\* recent window, while nobody owns historical sync.
C27_Witness ==
    \E a \in Addrs :
       /\ peers[a].isFirstConnection /\ released.by = a
       /\ peers[a].pc = "subscribing" /\ peers[a].filter.kind = "recent"
       /\ historicalSyncRelay = ""

\* ------------------------------------------------------ Ingest (SpecIngest)
\* C28, the step part: an Ingest of a new identifier sets the originating
\* connection's lastSeenTimestamp to the current time and no other's; an
\* Ingest of a marked identifier changes none.
IngestTouchesOwnTimestamp ==
    ingested' # ingested =>
       LET a == ingested'.by
       IN /\ \A b \in Addrs \ {a} :
                peers'[b].lastSeenTimestamp = peers[b].lastSeenTimestamp
          /\ peers'[a].lastSeenTimestamp =
                IF ingested'.ev \in seenEvents THEN peers[a].lastSeenTimestamp ELSE now
          /\ ingested'.dup = (ingested'.ev \in seenEvents)

\* C28: a non-duplicate Ingest(e, A) sets A's lastSeenTimestamp to the
\* current time, whether or not A owns historical sync, and changes no other
\* connection's; a duplicate Ingest changes no lastSeenTimestamp.
C28_IngestTimestamp == [][IngestTouchesOwnTimestamp]_vars

\* A connection that does not own historical sync has just ingested a new
\* event: its time is the current one; the owner, which had ingested the
\* other event earlier, keeps its older time.
C28_Witness ==
    \E a, b \in Addrs :
       /\ a # b /\ historicalSyncRelay = b
       /\ ingested = [by |-> a, ev |-> "e2", dup |-> FALSE]
       /\ peers[a].lastSeenTimestamp = now
       /\ peers[b].lastSeenTimestamp < now
       /\ "e1" \in eventStore /\ eventMetadata["e1"].SourceRelay = b

\* ------------------------------------------------- shutdown (SpecShutdown)
\* C29: the final Save that Close triggers is complete before Close closes
\* the peer sessions, so when Close has returned the file holds the final Save.
C29_FinalSaveBeforeClose == closed => (persister = "done" /\ saver = "persister")

\* ------------------------------------------------------------ Save (SpecSave)
\* The Save is writing the file.
Writing(v) == saving[v].pc \in {"timestamps", "last_saved"}

MembershipKept ==
    /\ \A u \in URLs : Exists(u) => connections'[u].id = connections[u].id
    /\ \A w \in Workers : (Running(w) /\ Running(w)') => wk'[w].url = wk[w].url

\* C34: registry membership only grows: a connection registered for an
\* address is never removed or replaced (by a subscribe failure, a stream
\* end, a reconnect, a Broadcast or a Close), and no RelayConnection is ever
\* found under two addresses.
C34_MembershipGrows ==
    /\ [](\A u, v \in Registered : connections[u].id = connections[v].id => u = v)
    /\ [][MembershipKept]_vars

\* The connection is still the one Connect registered after Close has closed
\* its session, a publish of a Broadcast has failed on it and its worker has
\* reconnected: the registry holds the same RelayConnection on a new session.
C34_Witness ==
    \E w \in Workers : \E s \in Sessions :
       /\ Registered = {wk[w].url} /\ created = 1
       /\ connections[wk[w].url].id = 1
       /\ closeCalls[s] > 0
       /\ \E p \in publishes : p.st = "failed" /\ p.relay = s
       /\ wk[w].pc = "sub"
       /\ sessions[s].st = "closed" /\ sessions[s].url = wk[w].url
       /\ connections[wk[w].url].Relay # s
       /\ SessionOpen(connections[wk[w].url].Relay)

\* ------------------------------------------------- after Close (SpecClose)
\* A call of Close has returned.
CloseReturned == \E c \in Clients : cl[c].pc = "idle" /\ cl[c].op = "Close"

\* C35, the step part: a worker whose connection holds a session that Close
\* has closed neither gives the connection a new session nor starts to
\* consume a subscription.
NoReopenAfterClose ==
    \A w \in Workers :
       (CloseReturned /\ Running(w) /\ connections[wk[w].url].Relay \in Sessions
          /\ closeCalls[connections[wk[w].url].Relay] > 0)
          => /\ connections'[wk[w].url].Relay = connections[wk[w].url].Relay
             /\ wk[w].pc = "sub" => wk'[w].pc # "stream"

\* C35: after Close() has returned, the peer sessions it closed stay the
\* sessions of their connections: no worker reconnects or subscribes anew
\* for a connection that Close has closed.
C35_ClosedStaysClosed == [][NoReopenAfterClose]_vars

\* ------------------------------------------- persisted addresses (SpecSync)
\* C36: a Save never loses the timestamp an earlier run persisted for an
\* address that has not connected yet in this run: the file holds a timestamp
\* for every address of the table loaded at startup.
C36_SavedTimestampsKept == DOMAIN savedTimestamps \subseteq DOMAIN file.timestamps

\* ------------------------------------------------ no forwarding (SpecEvents)
\* C38, the step part: a publish is started only by the fan-out of a
\* Broadcast, for the event that was passed to it; no step of a worker (an
\* Ingest among them) starts or changes a publish.
PublishOnlyByBroadcast ==
    /\ \A p \in publishes' \ publishes :
          \/ \E q \in publishes \ publishes' : q.st = "pending" /\ p = [q EXCEPT !.st = p.st]
          \/ \E c \in Clients : /\ cl[c].pc = "bfan" /\ cl'[c].pc = "idle"
                                 /\ p.ev = cl[c].ev /\ p.st = "pending"
    /\ \A w \in Workers : wk'[w] # wk[w] => publishes' = publishes

C37_OneOpenSession ==
    \A s \in DOMAIN sessions :
       sessions[s].st = "open"
          => Exists(sessions[s].url) /\ connections[sessions[s].url].Relay = s

\* ------------------------------------------------------ locks (SpecLocks)
\* The goroutine is at Lock() or RLock() and the lock is not free for it.
WaitsForLock(g) == At(g).op \in {"Lock", "RLock"} /\ ~CanTake(g, At(g))

\* The goroutines it waits for.
Blockers(g) ==
    Holders(At(g).arg) \cup (IF At(g).op = "RLock" THEN Writers(At(g).arg) ELSE {})

\* The worker is inside a call that blocks: the subscribe call, the close
\* and the dial of reconnect, the receive on the stream, the backoff sleep.
InBlockingCall(u) == At(u).op = "block"

\* C33: a worker holds no lock while it sleeps in backoff or blocks in a
\* subscribe or reconnect call, so no goroutine that waits for a lock (a
\* caller in Connect, Broadcast, GetAllEvents or Close, or another worker)
\* waits for one held by a worker that is inside such a call.
C33_WorkerBlocksUnlocked ==
    /\ \A u \in Addrs : InBlockingCall(u) => HeldBy(u) = {}
    /\ \A g \in Goroutines :
          WaitsForLock(g) => \A h \in Blockers(g) : ~(h \in Addrs /\ InBlockingCall(h))

\* One worker sleeps in backoff and the other is inside the dial of
\* reconnect, neither holding a lock, while Close holds rm.mu and Broadcast
\* waits for it.
C33_Witness ==
    \E u, v \in Addrs :
       /\ u # v
       /\ At(u) = Step("block", "time.Sleep", u) /\ HeldBy(u) = {}
       /\ At(v) = Step("block", "RelayConnect", v) /\ HeldBy(v) = {}
       /\ lk["mu"].w = "c1" /\ At("c1").op = "block"
       /\ WaitsForLock("c2") /\ At("c2").arg = "mu"

Rank(l) == IF l = "mu" THEN 1 ELSE IF l \in Addrs THEN 2 ELSE 3

\* A goroutine that takes a lock holds only locks that come before it in the
\* order rm.mu, conn.mu, {seenMu, storeMu}.
AscendingOrder ==
    \A g \in Goroutines : \A l \in Locks :
       (l \notin HeldBy(g) /\ l \in HeldBy(g)')
          => \A h \in HeldBy(g) : Rank(h) < Rank(l)

\* A set of goroutines each of which waits for a lock that only goroutines
\* of the set hold.
Deadlocked ==
    \E S \in SUBSET Goroutines :
       /\ S # {}
       /\ \A g \in S : WaitsForLock(g) /\ Blockers(g) \subseteq S

Race(g, h) ==
    /\ g # h
    /\ At(g).op \in {"read", "write"} /\ At(h).op = "write"
    /\ At(g).u = At(h).u /\ At(g).arg = At(h).arg
    /\ ~(At(g).u \in HeldBy(g) /\ At(h).u \in HeldBy(h))

====
